---- MODULE Spec2Model ----
(***************************************************************************)
(* A model of the game session of src/fruit_ninja.py (class FruitNinja and *)
(* the entity classes Fruit, Bomb, SlicedFruit, Particle).                 *)
(*                                                                         *)
(* Numbers.  The program computes positions and velocities in floating     *)
(* point.  The model keeps every length and velocity as an integer number  *)
(* of 1/Scale pixels (Scale = 100, so GRAVITY = 0.35 is 35 and             *)
(* GRAVITY * 0.8 is 28); pointer positions are whole pixels, as pygame     *)
(* delivers them.  Spawn intervals are kept in tenths of a tick, since the *)
(* accelerations are 0.3, 1.2, 2.0, 6 and 10.  Distances are compared as   *)
(* exact squares in two-word integers, because the squares do not fit the  *)
(* 32-bit integers of the model checker.                                   *)
(***************************************************************************)
EXTENDS Integers, Sequences, FiniteSets, TLC

\* ------------------------------------------------------------------------
\* Program constants (src/fruit_ninja.py, lines 36-67)
\* ------------------------------------------------------------------------
Scale == 100
SCREEN_WIDTH == 800
SCREEN_HEIGHT == 600
FPS == 60
GRAVITY == 35
TOP_BAR_HEIGHT == 80
BOTTOM_BAR_HEIGHT == 60
GAME_AREA_Y == TOP_BAR_HEIGHT
GAME_AREA_HEIGHT == SCREEN_HEIGHT - TOP_BAR_HEIGHT - BOTTOM_BAR_HEIGHT
MAX_LIVES == 3

\* ------------------------------------------------------------------------
\* Bounds of the model
\* ------------------------------------------------------------------------
\* The number of playing ticks of the session loop that are explored.
MaxFrames == 280
\* The longest swipe path the pointer is allowed to build.
MaxPath == 2
\* The playing ticks explored in mode Kolay, whose fruits are the slowest.
KolayFrames == 340
\* The playing ticks explored for the one-finger player of DeepSpec.
DeepFrames == 430
\* The playing ticks explored under the fair scheduling of LiveSpec.
LiveFrames == 270
\* The updates applied to an entity whose flight is followed on its own.
TrajTicks == 10
\* The largest pixel coordinate of the grid point_line_distance is called on.
DistGrid == 3
\* The playing ticks of the sessions apply_game_mode_difficulty is called in.
ModeFrames == 130
\* The updates applied to a fruit that spawn_fruit has launched.
LaunchTicks == 70
\* The playing ticks explored for sessions that run to the end of the loop.
OverFrames == 470

\* ------------------------------------------------------------------------
\* Helpers
\* ------------------------------------------------------------------------
Abs(n) == IF n < 0 THEN -n ELSE n
Max(a, b) == IF a >= b THEN a ELSE b
Min(a, b) == IF a <= b THEN a ELSE b

\* The removals of lines 987-988 and 1127-1128 left out: the list as it was.
Without_kept(s, drop, i) == SubSeq(s, i, Len(s))

\* A sequence without the elements at the positions in drop.
RECURSIVE Without(_, _, _)
Without(s, drop, i) ==
  IF i > Len(s) THEN <<>>
  ELSE IF i \in drop THEN Without(s, drop, i + 1)
       ELSE <<s[i]>> \o Without(s, drop, i + 1)

\* Two-word non-negative integers hi * WBase + lo, 0 <= lo < WBase.
WHalf == 100 * 100
WBase == WHalf * WHalf
WAdd(a, b) ==
  [hi |-> a.hi + b.hi + ((a.lo + b.lo) \div WBase), lo |-> (a.lo + b.lo) % WBase]
\* The product of two integers of magnitude below 2^31.
WMul(x, y) ==
  LET a == Abs(x)
      b == Abs(y)
      a1 == a \div WHalf
      a0 == a % WHalf
      b1 == b \div WHalf
      b0 == b % WHalf
      mid == a1 * b0 + a0 * b1
      low == (mid % WHalf) * WHalf + a0 * b0
  IN [hi |-> a1 * b1 + (mid \div WHalf) + (low \div WBase), lo |-> low % WBase]
WLess(a, b) == a.hi < b.hi \/ (a.hi = b.hi /\ a.lo < b.lo)

\* ------------------------------------------------------------------------
\* Inputs: what the random generator, the asset folder, the settings file
\* and the pointer can deliver, sampled
\* ------------------------------------------------------------------------
Modes == {"Kolay", "Orta", "Zor"}
\* fruit_images as load_fruit_images can return it: empty (no image folder),
\* or fruit types that each have a whole image and a sliced or half image.
Catalogs ==
  { <<>>,
    << [fruit_type |-> "apple", radius |-> 35 * Scale, sliced |-> TRUE] >> }
\* best_score.txt
BestScores == {2}
\* random.randint(80, SCREEN_WIDTH - 80), in pixels
SpawnXs == {400}
\* random.uniform(-h, h) for the horizontal velocity
SpawnVXs == {0}
\* random.uniform(fruit_velocity_min, fruit_velocity_max) for entity id, in
\* 1/Scale pixels per tick.  Each sample brings the fruit back to within
\* one pixel above its launch height on its last tick in the field; the two
\* samples of the first fruit of mode Zor make it land either before the
\* second fruit or in the same tick as the second fruit, and the second
\* sample of the fourth fruit of mode Zor brings it down together with the
\* first bomb.
FruitVYs(mode, id) ==
  CASE mode = "Kolay" -> {-911}
    [] mode = "Zor" -> IF id = 1 THEN {-1506, -2083}
                       ELSE IF id = 4 THEN {-1506, -1646} ELSE {-1506}
    [] OTHER -> {-1226}
\* random.uniform(bomb_velocity_min, bomb_velocity_max)
BombVYs(mode) ==
  CASE mode = "Kolay" -> {-8 * Scale}
    [] mode = "Zor" -> {-10 * Scale}
    [] OTHER -> {-9 * Scale}
\* random.uniform(-5, 5) for the rotation speed, in degrees
RotationSpeeds == {3}
\* event.pos of the pointer events, in pixels
Points == {<<429, 575>>, <<548, 372>>}
\* The one position the one-finger player of DeepSpec and LiveSpec touches.
OnePoint == {<<429, 575>>}
Buttons == {1, 3}
Keys == {"K_SPACE", "K_a"}
\* The ticks at which the sampled player presses K_SPACE.
KeyFrames == {0, 240, 270, 330}

\* ------------------------------------------------------------------------
\* State
\* ------------------------------------------------------------------------
VARIABLES
  running, fruits, bombs, sliced_fruits, particles, score, best_score, lives,
  game_over, combo, combo_timer, show_title_screen, swipe_path, swiping,
  bomb_flash_active, bomb_flash_timer, bomb_flash_center,
  life_loss_timer, life_loss_index,
  spawn_timer, spawn_interval, bomb_spawn_timer, bomb_spawn_interval,
  difficulty, game_mode, fruit_images, game_over_frames,
  pc, frame, next_id, dropped, last, call, ret

session ==
  << fruits, bombs, sliced_fruits, particles, score, best_score, lives,
     game_over, combo, combo_timer, show_title_screen,
     bomb_flash_active, bomb_flash_timer, bomb_flash_center,
     life_loss_timer, life_loss_index,
     spawn_timer, spawn_interval, bomb_spawn_timer, bomb_spawn_interval,
     difficulty, game_over_frames, next_id >>
pointer == << swipe_path, swiping >>
config == << game_mode, fruit_images >>
pure == << call, ret >>
vars == << running, session, pointer, config, pc, frame, dropped, last, pure >>

\* ------------------------------------------------------------------------
\* Fruit (src/fruit_ninja.py, lines 73-104)
\* ------------------------------------------------------------------------
\* Fruit.__init__ followed by the assignments of spawn_fruit: image is the
\* catalog entry of the fruit type, or <<>> when the type has no image.
Fruit(id, x, y, vx, vy, rot, image) ==
  [ id |-> id, x |-> x, y |-> y, vx |-> vx, vy |-> vy,
    angle |-> 0, rotation_speed |-> rot,
    radius |-> IF image = <<>> THEN 30 * Scale ELSE image[1].radius,
    sliced |-> IF image = <<>> THEN FALSE ELSE image[1].sliced,
    color |-> "RED" ]

\* Fruit.update without line 96, self.vy += GRAVITY.
Fruit_update_no_gravity(f) ==
  [ f EXCEPT
      !.x = Max(f.radius, Min(SCREEN_WIDTH * Scale - f.radius, f.x + f.vx)),
      !.y = f.y + f.vy,
      !.angle = f.angle + f.rotation_speed ]

\* Fruit.update without line 100, the clamp of x.
Fruit_update_unclamped(f) ==
  [ f EXCEPT
      !.x = f.x + f.vx,
      !.y = f.y + f.vy,
      !.vy = f.vy + GRAVITY,
      !.angle = f.angle + f.rotation_speed ]

Fruit_update(f) ==
  [ f EXCEPT
      !.x = Max(f.radius, Min(SCREEN_WIDTH * Scale - f.radius, f.x + f.vx)),
      !.y = f.y + f.vy,
      !.vy = f.vy + GRAVITY,
      !.angle = f.angle + f.rotation_speed ]

\* is_missed with >= instead of > (line 104).
is_missed_at_edge(f) == f.y - f.radius >= (GAME_AREA_Y + GAME_AREA_HEIGHT) * Scale

is_missed(f) == f.y - f.radius > (GAME_AREA_Y + GAME_AREA_HEIGHT) * Scale

\* ------------------------------------------------------------------------
\* SlicedFruit (lines 133-220).  The launch angle and speed are sampled at
\* angle 0 and speed 3: cos = 1, sin = 0.
\* ------------------------------------------------------------------------
SlicedFruit(x, y) ==
  [ x |-> x, y |-> y, life |-> 60,
    half1_x |-> x, half1_y |-> y, half2_x |-> x, half2_y |-> y,
    half1_vx |-> 3 * Scale, half1_vy |-> -2 * Scale,
    half2_vx |-> -3 * Scale, half2_vy |-> -2 * Scale ]

\* update of SlicedFruit without the life countdown of line 178.
SlicedFruit_update_ageless(sf) ==
  [ sf EXCEPT
      !.half1_x = sf.half1_x + sf.half1_vx,
      !.half1_y = sf.half1_y + sf.half1_vy,
      !.half2_x = sf.half2_x + sf.half2_vx,
      !.half2_y = sf.half2_y + sf.half2_vy,
      !.half1_vy = sf.half1_vy + Scale \div 2,
      !.half2_vy = sf.half2_vy + Scale \div 2 ]

SlicedFruit_update(sf) ==
  [ sf EXCEPT
      !.half1_x = sf.half1_x + sf.half1_vx,
      !.half1_y = sf.half1_y + sf.half1_vy,
      !.half2_x = sf.half2_x + sf.half2_vx,
      !.half2_y = sf.half2_y + sf.half2_vy,
      !.half1_vy = sf.half1_vy + Scale \div 2,
      !.half2_vy = sf.half2_vy + Scale \div 2,
      !.life = sf.life - 1 ]

\* is_alive of SlicedFruit as life >= 0 instead of life > 0.
SlicedFruit_is_alive_at_zero(sf) == sf.life >= 0

SlicedFruit_is_alive(sf) == sf.life > 0

\* ------------------------------------------------------------------------
\* Bomb (lines 222-247)
\* ------------------------------------------------------------------------
Bomb(id, x, y, vx, vy, rot) ==
  [ id |-> id, x |-> x, y |-> y, vx |-> vx, vy |-> vy,
    angle |-> 0, rotation_speed |-> rot, radius |-> 30 * Scale,
    pulse_timer |-> 0 ]

Bomb_update(b) ==
  [ b EXCEPT
      !.x = Max(b.radius, Min(SCREEN_WIDTH * Scale - b.radius, b.x + b.vx)),
      !.y = b.y + b.vy,
      !.vy = b.vy + (GRAVITY * 8) \div 10,
      !.angle = b.angle + b.rotation_speed,
      !.pulse_timer = b.pulse_timer + 1 ]

is_off_screen(b) ==
  b.y - b.radius > (GAME_AREA_Y + GAME_AREA_HEIGHT + 60) * Scale

\* ------------------------------------------------------------------------
\* Particle (lines 284-316).  The random velocity is sampled at (0, 0).
\* ------------------------------------------------------------------------
Particle(x, y, color) ==
  [ x |-> x, y |-> y, vx |-> 0, vy |-> 0, color |-> color, life |-> 30 ]

Particle_update(p) ==
  [ p EXCEPT
      !.x = p.x + p.vx,
      !.y = p.y + p.vy,
      !.life = p.life - 1,
      !.vy = p.vy + (3 * Scale) \div 10 ]

Particle_is_alive(p) == p.life > 0

\* ------------------------------------------------------------------------
\* Difficulty (lines 710-746).  Intervals and accelerations in tenths of a
\* tick, velocities in 1/Scale pixels per tick.
\* ------------------------------------------------------------------------
Tenths == 10

apply_game_mode_difficulty(mode) ==
  CASE mode = "Kolay" ->
         [ spawn_interval |-> 90 * Tenths, bomb_spawn_interval |-> 9999 * Tenths,
           fruit_velocity_min |-> -12 * Scale, fruit_velocity_max |-> -9 * Scale,
           fruit_horizontal_velocity |-> 3 * Scale,
           bomb_velocity_min |-> -8 * Scale, bomb_velocity_max |-> -6 * Scale,
           spawn_acceleration |-> 3, bomb_spawn_acceleration |-> 0 ]
    [] mode = "Zor" ->
         [ spawn_interval |-> 35 * Tenths, bomb_spawn_interval |-> 150 * Tenths,
           fruit_velocity_min |-> -22 * Scale, fruit_velocity_max |-> -15 * Scale,
           fruit_horizontal_velocity |-> 9 * Scale,
           bomb_velocity_min |-> -13 * Scale, bomb_velocity_max |-> -10 * Scale,
           spawn_acceleration |-> 20, bomb_spawn_acceleration |-> 100 ]
    [] OTHER ->
         [ spawn_interval |-> 55 * Tenths, bomb_spawn_interval |-> 280 * Tenths,
           fruit_velocity_min |-> -18 * Scale, fruit_velocity_max |-> -12 * Scale,
           fruit_horizontal_velocity |-> 7 * Scale,
           bomb_velocity_min |-> -11 * Scale, bomb_velocity_max |-> -9 * Scale,
           spawn_acceleration |-> 12, bomb_spawn_acceleration |-> 60 ]

\* The fields of the difficulty record that are kept in the variable
\* difficulty (the two intervals are variables of their own).
DifficultyOf(d) ==
  [ fruit_velocity_min |-> d.fruit_velocity_min,
    fruit_velocity_max |-> d.fruit_velocity_max,
    fruit_horizontal_velocity |-> d.fruit_horizontal_velocity,
    bomb_velocity_min |-> d.bomb_velocity_min,
    bomb_velocity_max |-> d.bomb_velocity_max,
    spawn_acceleration |-> d.spawn_acceleration,
    bomb_spawn_acceleration |-> d.bomb_spawn_acceleration ]

\* ------------------------------------------------------------------------
\* Collision (lines 823-882)
\* ------------------------------------------------------------------------
\* point_line_distance without the clamp of param (lines 838-846): the
\* distance to the line through the two points.
point_line_distance_unclamped(px, py, x1, y1, x2, y2) ==
  LET A == px - x1 * Scale
      B == py - y1 * Scale
      C == x2 - x1
      D == y2 - y1
      len_sq == C * C + D * D
  IN IF len_sq = 0
       THEN [num |-> WAdd(WMul(A, A), WMul(B, B)), den |-> 1]
     ELSE [num |-> WMul(A * D - B * C, A * D - B * C), den |-> len_sq]

\* point_line_distance, as the square of the distance it returns: the
\* rational num / den in (1/Scale pixel)^2.  (px, py) is an entity's centre
\* in 1/Scale pixels, (x1, y1) and (x2, y2) are pointer positions in pixels.
\* In the projected case the code's dx and dy are D * cross / len_sq and
\* -C * cross / len_sq with cross = A * D - B * C, so that
\* dx * dx + dy * dy = cross * cross / len_sq.
point_line_distance(px, py, x1, y1, x2, y2) ==
  LET A == px - x1 * Scale
      B == py - y1 * Scale
      C == x2 - x1
      D == y2 - y1
      dot == A * C + B * D
      len_sq == C * C + D * D
      A2 == px - x2 * Scale
      B2 == py - y2 * Scale
  IN IF len_sq = 0
       THEN [num |-> WAdd(WMul(A, A), WMul(B, B)), den |-> 1]
     ELSE IF dot < 0
       THEN [num |-> WAdd(WMul(A, A), WMul(B, B)), den |-> 1]
     ELSE IF dot > Scale * len_sq
       THEN [num |-> WAdd(WMul(A2, A2), WMul(B2, B2)), den |-> 1]
     ELSE [num |-> WMul(A * D - B * C, A * D - B * C), den |-> len_sq]

\* The value of a two-word integer that fits one word.
WInt(w) == w.hi * WBase + w.lo

\* DistanceLess with <= for <.
DistanceLessOrEqual(d, radius) == ~WLess(WMul(radius * radius, d.den), d.num)

\* distance < radius, for a squared distance d and a radius in 1/Scale pixels
DistanceLess(d, radius) == WLess(d.num, WMul(radius * radius, d.den))

\* check_slice: the loop over the segments of the swipe path, from segment i
RECURSIVE check_slice_loop(_, _, _)
check_slice_loop(path, fruit, i) ==
  IF i > Len(path) - 1 THEN FALSE
  ELSE IF DistanceLess(point_line_distance(fruit.x, fruit.y,
                         path[i][1], path[i][2], path[i + 1][1], path[i + 1][2]),
                       fruit.radius)
         THEN TRUE
       ELSE check_slice_loop(path, fruit, i + 1)

check_slice(path, fruit) ==
  IF Len(path) < 2 THEN FALSE ELSE check_slice_loop(path, fruit, 1)

RECURSIVE check_bomb_slice_loop(_, _, _)
check_bomb_slice_loop(path, bomb, i) ==
  IF i > Len(path) - 1 THEN FALSE
  ELSE IF DistanceLess(point_line_distance(bomb.x, bomb.y,
                         path[i][1], path[i][2], path[i + 1][1], path[i + 1][2]),
                       bomb.radius)
         THEN TRUE
       ELSE check_bomb_slice_loop(path, bomb, i + 1)

check_bomb_slice(path, bomb) ==
  IF Len(path) < 2 THEN FALSE ELSE check_bomb_slice_loop(path, bomb, 1)

\* check_title_slice (lines 1015-1045)
RECURSIVE check_title_slice_loop(_, _)
check_title_slice_loop(path, i) ==
  LET subtitle_y == SCREEN_HEIGHT \div 2 + 50
      subtitle_x_center == SCREEN_WIDTH \div 2
      subtitle_width == 300
      lo_x == subtitle_x_center - subtitle_width \div 2
      hi_x == subtitle_x_center + subtitle_width \div 2
      min_y == Min(path[i][2], path[i + 1][2])
      max_y == Max(path[i][2], path[i + 1][2])
      min_x == Min(path[i][1], path[i + 1][1])
      max_x == Max(path[i][1], path[i + 1][1])
  IN IF i > Len(path) - 1 THEN FALSE
     ELSE IF /\ \/ (subtitle_y - 25 <= min_y /\ min_y <= subtitle_y + 25)
                \/ (subtitle_y - 25 <= max_y /\ max_y <= subtitle_y + 25)
                \/ (min_y < subtitle_y - 25 /\ max_y > subtitle_y + 25)
             /\ \/ (lo_x <= min_x /\ min_x <= hi_x)
                \/ (lo_x <= max_x /\ max_x <= hi_x)
                \/ (min_x < lo_x /\ max_x > hi_x)
            THEN TRUE
          ELSE check_title_slice_loop(path, i + 1)

\* check_title_slice answering True for every path of two or more points,
\* without the tests of lines 1033-1043.
check_title_slice_anywhere(path) == Len(path) >= 2

check_title_slice(path) ==
  IF Len(path) < 2 THEN FALSE ELSE check_title_slice_loop(path, 1)

\* ------------------------------------------------------------------------
\* Slicing (lines 884-947)
\* ------------------------------------------------------------------------
\* The points slice_fruit awards for the combo it has just incremented.
slice_points(c) == 1 + Max(1, c - 1)

\* The SlicedFruit objects slice_fruit appends for a fruit.
slice_halves(fruit) ==
  IF fruit.sliced THEN <<SlicedFruit(fruit.x, fruit.y)>> ELSE <<>>

\* The particles slice_fruit appends for a fruit; the random offset of the
\* fragment is sampled at (0, 0).
slice_particles(fruit) ==
  [i \in 1..5 |-> Particle(fruit.x, fruit.y, fruit.color)]
    \o [i \in 1..2 |-> Particle(fruit.x, fruit.y, "YELLOW")]

\* slice_fruit without lines 928-930, the update of best_score.
slice_fruit_keeps_best(s, fruit) ==
  LET c == s.combo + 1
      sc == s.score + slice_points(c)
  IN [ sliced_fruits |-> s.sliced_fruits \o slice_halves(fruit),
       particles |-> s.particles \o slice_particles(fruit),
       combo |-> c,
       combo_timer |-> 120,
       score |-> sc,
       best_score |-> s.best_score ]

\* slice_fruit on the part of the session it reads and writes.
slice_fruit(s, fruit) ==
  LET c == s.combo + 1
      sc == s.score + slice_points(c)
  IN [ sliced_fruits |-> s.sliced_fruits \o slice_halves(fruit),
       particles |-> s.particles \o slice_particles(fruit),
       combo |-> c,
       combo_timer |-> 120,
       score |-> sc,
       best_score |-> IF sc > s.best_score THEN sc ELSE s.best_score ]

\* The loop of lines 981-985 leaving at the first fruit it slices.
RECURSIVE slice_loop_first_only(_, _, _, _)
slice_loop_first_only(s, path, fs, i) ==
  IF i > Len(fs) THEN s
  ELSE IF check_slice(path, fs[i]) THEN slice_fruit(s, fs[i])
       ELSE slice_loop_first_only(s, path, fs, i + 1)

\* The loop of handle_events over self.fruits (lines 981-985), from fruit i.
RECURSIVE slice_loop(_, _, _, _)
slice_loop(s, path, fs, i) ==
  IF i > Len(fs) THEN s
  ELSE IF check_slice(path, fs[i])
         THEN slice_loop(slice_fruit(s, fs[i]), path, fs, i + 1)
       ELSE slice_loop(s, path, fs, i + 1)

\* The first bomb of self.bombs the path slices (lines 974-978); 0 if none.
RECURSIVE first_bomb_sliced(_, _, _)
first_bomb_sliced(path, bs, i) ==
  IF i > Len(bs) THEN 0
  ELSE IF check_bomb_slice(path, bs[i]) THEN i
       ELSE first_bomb_sliced(path, bs, i + 1)

\* The events of a batch that the return of line 978 leaves unhandled.
DroppedBatches == { <<>>, <<"MOUSEBUTTONUP">>, <<"QUIT">> }

SliceState ==
  [ sliced_fruits |-> sliced_fruits, particles |-> particles, combo |-> combo,
    combo_timer |-> combo_timer, score |-> score, best_score |-> best_score ]

\* ------------------------------------------------------------------------
\* handle_events (lines 949-993), one action per event of the batch.
\* pc = "events" is the for loop waiting for the next event of the batch.
\* ------------------------------------------------------------------------
EventQuit ==
  /\ pc = "events"
  /\ running' = FALSE
  /\ UNCHANGED << session, pointer, config, pc, frame, dropped, last, pure >>

EventMouseButtonDown(points) ==
  /\ pc = "events"
  /\ \E pos \in points, button \in Buttons :
       IF button = 1
         THEN swiping' = TRUE /\ swipe_path' = <<pos>>
         ELSE UNCHANGED pointer
  /\ UNCHANGED << running, session, config, pc, frame, dropped, last, pure >>

EventMouseButtonUp ==
  /\ pc = "events"
  /\ \E button \in Buttons :
       IF button = 1
         THEN swiping' = FALSE /\ swipe_path' = <<>>
         ELSE UNCHANGED pointer
  /\ UNCHANGED << running, session, config, pc, frame, dropped, last, pure >>

\* start_bomb_flash without line 943, bomb_flash_active = True.
start_bomb_flash_inactive(bomb) ==
  /\ game_over' = TRUE
  /\ bomb_flash_center' = <<bomb.x, bomb.y>>
  /\ bomb_flash_active' = bomb_flash_active
  /\ bomb_flash_timer' = 0
  /\ fruits' = <<>>
  /\ bombs' = <<>>

\* start_bomb_flash without line 946, self.fruits = [].
start_bomb_flash_keeps_fruits(bomb) ==
  /\ game_over' = TRUE
  /\ bomb_flash_center' = <<bomb.x, bomb.y>>
  /\ bomb_flash_active' = TRUE
  /\ bomb_flash_timer' = 0
  /\ fruits' = fruits
  /\ bombs' = <<>>

\* start_bomb_flash (lines 932-947)
start_bomb_flash(bomb) ==
  /\ game_over' = TRUE
  /\ bomb_flash_center' = <<bomb.x, bomb.y>>
  /\ bomb_flash_active' = TRUE
  /\ bomb_flash_timer' = 0
  /\ fruits' = <<>>
  /\ bombs' = <<>>

\* The guard of line 972 left out: bombs and fruits are tested in any phase.
slices_checked_always(over, title) == TRUE

\* The guard of line 972, on the flags as they are after the title check.
slices_checked(over, title) == ~over /\ ~title

EventMouseMotion(points) ==
  /\ pc = "events"
  /\ \E pos \in points :
       IF ~swiping
         THEN UNCHANGED << session, pointer, pc, dropped, last >>
         ELSE
           LET path == Append(swipe_path, pos)
               title == IF show_title_screen /\ check_title_slice(path)
                          THEN FALSE ELSE show_title_screen
               hit == first_bomb_sliced(path, bombs, 1)
               s == slice_loop(SliceState, path, fruits, 1)
               cut == {i \in 1..Len(fruits) : check_slice(path, fruits[i])}
           IN /\ Len(swipe_path) < MaxPath
              /\ swipe_path' = path
              /\ swiping' = swiping
              /\ show_title_screen' = title
              /\ IF ~slices_checked(game_over, title)
                   THEN UNCHANGED << fruits, bombs, sliced_fruits, particles, score,
                                     best_score, game_over, combo, combo_timer,
                                     bomb_flash_active, bomb_flash_timer,
                                     bomb_flash_center, pc, dropped, last >>
                 ELSE IF hit # 0
                   THEN /\ start_bomb_flash(bombs[hit])
                        /\ pc' = "update"
                        /\ dropped' \in DroppedBatches
                        /\ last' = [op |-> "bomb", n |-> hit,
                                    passed |-> Cardinality(cut)]
                        /\ UNCHANGED << sliced_fruits, particles, score, best_score,
                                        combo, combo_timer >>
                 ELSE /\ sliced_fruits' = s.sliced_fruits
                      /\ particles' = s.particles
                      /\ combo' = s.combo
                      /\ combo_timer' = s.combo_timer
                      /\ score' = s.score
                      /\ best_score' = s.best_score
                      /\ fruits' = Without(fruits, cut, 1)
                      /\ last' = IF cut = {} THEN last
                                 ELSE [op |-> "slice", n |-> Cardinality(cut)]
                      /\ UNCHANGED << bombs, game_over, bomb_flash_active,
                                      bomb_flash_timer, bomb_flash_center, pc, dropped >>
  /\ UNCHANGED << running, lives, life_loss_timer, life_loss_index, spawn_timer,
                  spawn_interval, bomb_spawn_timer, bomb_spawn_interval, difficulty,
                  game_over_frames, next_id, config, frame, pure >>

\* reset_game without line 1013, apply_game_mode_difficulty().
reset_game_keeps_difficulty ==
  /\ fruits' = <<>>
  /\ bombs' = <<>>
  /\ sliced_fruits' = <<>>
  /\ particles' = <<>>
  /\ score' = 0
  /\ lives' = MAX_LIVES
  /\ game_over' = FALSE
  /\ show_title_screen' = FALSE
  /\ swipe_path' = <<>>
  /\ spawn_timer' = 0
  /\ bomb_spawn_timer' = 0
  /\ combo' = 0
  /\ combo_timer' = 0
  /\ life_loss_index' = -1
  /\ life_loss_timer' = 0
  /\ UNCHANGED << spawn_interval, bomb_spawn_interval, difficulty, best_score,
                  bomb_flash_active, bomb_flash_timer, bomb_flash_center,
                  game_over_frames, next_id, swiping >>

\* reset_game (lines 995-1013)
\* reset_game that also sets _game_over_frames back to 0.
reset_game_restarts_count ==
  /\ fruits' = <<>>
  /\ bombs' = <<>>
  /\ sliced_fruits' = <<>>
  /\ particles' = <<>>
  /\ score' = 0
  /\ lives' = MAX_LIVES
  /\ game_over' = FALSE
  /\ show_title_screen' = FALSE
  /\ swipe_path' = <<>>
  /\ spawn_timer' = 0
  /\ bomb_spawn_timer' = 0
  /\ combo' = 0
  /\ combo_timer' = 0
  /\ life_loss_index' = -1
  /\ life_loss_timer' = 0
  /\ spawn_interval' = apply_game_mode_difficulty(game_mode).spawn_interval
  /\ bomb_spawn_interval' = apply_game_mode_difficulty(game_mode).bomb_spawn_interval
  /\ difficulty' = DifficultyOf(apply_game_mode_difficulty(game_mode))
  /\ UNCHANGED << best_score, bomb_flash_active, bomb_flash_timer, bomb_flash_center,
                  next_id, swiping >>
  /\ game_over_frames' = 0

reset_game ==
  /\ fruits' = <<>>
  /\ bombs' = <<>>
  /\ sliced_fruits' = <<>>
  /\ particles' = <<>>
  /\ score' = 0
  /\ lives' = MAX_LIVES
  /\ game_over' = FALSE
  /\ show_title_screen' = FALSE
  /\ swipe_path' = <<>>
  /\ spawn_timer' = 0
  /\ bomb_spawn_timer' = 0
  /\ combo' = 0
  /\ combo_timer' = 0
  /\ life_loss_index' = -1
  /\ life_loss_timer' = 0
  /\ spawn_interval' = apply_game_mode_difficulty(game_mode).spawn_interval
  /\ bomb_spawn_interval' = apply_game_mode_difficulty(game_mode).bomb_spawn_interval
  /\ difficulty' = DifficultyOf(apply_game_mode_difficulty(game_mode))
  /\ UNCHANGED << best_score, bomb_flash_active, bomb_flash_timer, bomb_flash_center,
                  game_over_frames, next_id, swiping >>

\* Whether a KEYDOWN event restarts the game (line 991).
restart_accepted(key) == game_over /\ key = "K_SPACE"

EventKeyDown ==
  /\ pc = "events"
  /\ \E key \in Keys :
       /\ key = "K_SPACE" => frame \in KeyFrames
       /\ IF restart_accepted(key)
            THEN reset_game /\ last' = [op |-> "reset", n |-> 0]
          ELSE /\ UNCHANGED << session, pointer >>
               /\ last' = IF key = "K_SPACE" THEN [op |-> "space_ignored", n |-> 0]
                          ELSE last
  /\ UNCHANGED << running, config, pc, frame, dropped, pure >>

\* ------------------------------------------------------------------------
\* update (lines 1087-1157)
\* ------------------------------------------------------------------------
\* bomb_flash_duration as half a second, FPS * 0.5, instead of line 347.
bomb_flash_half_second == (FPS * 5) \div 10

\* self.bomb_flash_duration = FPS * 0.7 (line 347), a whole number of ticks
bomb_flash_duration == (FPS * 7) \div 10
life_loss_duration == (FPS * 6) \div 10

\* The launch height 80 pixels below the field instead of the 30 of line 796.
spawn_y_deep == (GAME_AREA_Y + GAME_AREA_HEIGHT + 80) * Scale

\* spawn_fruit / spawn_bomb (lines 779-821): the new entity.
spawn_y == (GAME_AREA_Y + GAME_AREA_HEIGHT + 30) * Scale
spawn_fruit(id, x, vx, vy, rot, image) ==
  Fruit(id, x * Scale, spawn_y, vx, vy, rot, image)
spawn_bomb(id, x, vx, vy, rot) == Bomb(id, x * Scale, spawn_y, vx, vy, rot)

\* get_random_fruit_type with the lookup of lines 807-814: the catalog
\* entries a spawned fruit can get (<<>>: type "apple" without an image).
FruitImages ==
  IF fruit_images = <<>> THEN { <<>> }
  ELSE { <<fruit_images[i]>> : i \in 1..Len(fruit_images) }

\* The bomb spawn block of update entered in every mode, without the test
\* of line 1111.
bombs_in_every_mode(mode) == TRUE

\* Whether update runs its bomb spawn block (line 1111).
bombs_enabled(mode) == mode # "Kolay"

\* The spawn test with > for >=: a spawn one tick after the counter has
\* reached a whole interval.
spawn_due_late(timer, interval) == timer * Tenths > interval

\* Whether a spawn counter has reached its interval (lines 1103, 1113).
spawn_due(timer, interval) == timer * Tenths >= interval

\* The interval after a spawn without the floor of lines 1108 and 1118.
next_interval_unbounded(interval, acceleration, floor) ==
  interval - acceleration

\* The interval after a spawn (lines 1107-1108, 1117-1118).
next_interval(interval, acceleration, floor) ==
  Max(floor * Tenths, interval - acceleration)

\* The loop of lines 1127-1139 taking one life per tick, not one per fruit.
miss_loop_once(s, k) ==
  IF k = 0 THEN s
  ELSE [ lives |-> s.lives - 1,
         life_loss_index |-> MAX_LIVES - (s.lives - 1) - 1,
         life_loss_timer |-> (FPS * 6) \div 10,
         game_over |-> IF s.lives - 1 <= 0 /\ ~s.game_over THEN TRUE
                       ELSE s.game_over ]

\* The loop of lines 1127-1139 over the k missed fruits still to remove.
RECURSIVE miss_loop(_, _)
miss_loop(s, k) ==
  IF k = 0 THEN s
  ELSE miss_loop(
         [ lives |-> s.lives - 1,
           life_loss_index |-> MAX_LIVES - (s.lives - 1) - 1,
           life_loss_timer |-> life_loss_duration,
           game_over |-> IF s.lives - 1 <= 0 /\ ~s.game_over THEN TRUE
                         ELSE s.game_over ],
         k - 1)

Update(limit) ==
  /\ pc \in {"events", "update"}
  /\ pc' = "draw"
  /\ IF show_title_screen
       THEN /\ UNCHANGED << session, frame >>
            /\ last' = [op |-> "update_title", n |-> 0]
     ELSE IF game_over /\ bomb_flash_active
       THEN /\ bomb_flash_timer' = bomb_flash_timer + 1
            /\ bomb_flash_active' = ~(bomb_flash_timer + 1 >= bomb_flash_duration)
            /\ last' = [op |-> "update_flash", n |-> 0]
            /\ frame' = frame + 1
            /\ UNCHANGED << fruits, bombs, sliced_fruits, particles, score,
                            best_score, lives, game_over, combo, combo_timer,
                            show_title_screen, bomb_flash_center, life_loss_timer,
                            life_loss_index, spawn_timer, spawn_interval,
                            bomb_spawn_timer, bomb_spawn_interval, difficulty,
                            game_over_frames, next_id >>
     ELSE
       /\ frame < limit
       /\ frame' = frame + 1
       /\ \E x \in SpawnXs, vx \in SpawnVXs, vy \in FruitVYs(game_mode, next_id),
             rot \in RotationSpeeds, image \in FruitImages,
             bx \in SpawnXs, bvx \in SpawnVXs, bvy \in BombVYs(game_mode) :
            LET t1 == spawn_timer + 1
                fruit_due == spawn_due(t1, spawn_interval)
                fruits1 == IF fruit_due
                             THEN Append(fruits, spawn_fruit(next_id, x, vx, vy, rot, image))
                           ELSE fruits
                id1 == IF fruit_due THEN next_id + 1 ELSE next_id
                bombs_on == bombs_enabled(game_mode)
                t2 == bomb_spawn_timer + 1
                bomb_due == bombs_on /\ spawn_due(t2, bomb_spawn_interval)
                bombs1 == IF bomb_due
                            THEN Append(bombs, spawn_bomb(id1, bx, bvx, bvy, rot))
                          ELSE bombs
                id2 == IF bomb_due THEN id1 + 1 ELSE id1
                moved == [i \in 1..Len(fruits1) |-> Fruit_update(fruits1[i])]
                missed == {i \in 1..Len(moved) : is_missed(moved[i])}
                m == miss_loop([ lives |-> lives, life_loss_index |-> life_loss_index,
                                 life_loss_timer |-> life_loss_timer,
                                 game_over |-> game_over ],
                               Cardinality(missed))
                halves == [i \in 1..Len(sliced_fruits) |->
                             SlicedFruit_update(sliced_fruits[i])]
                dust == [i \in 1..Len(particles) |-> Particle_update(particles[i])]
            IN /\ spawn_timer' = IF fruit_due THEN 0 ELSE t1
               /\ spawn_interval' =
                    IF fruit_due
                      THEN next_interval(spawn_interval, difficulty.spawn_acceleration,
                                         IF game_mode = "Zor" THEN 20 ELSE 30)
                    ELSE spawn_interval
               /\ bomb_spawn_timer' =
                    IF ~bombs_on THEN bomb_spawn_timer
                    ELSE IF bomb_due THEN 0 ELSE t2
               /\ bomb_spawn_interval' =
                    IF bomb_due
                      THEN next_interval(bomb_spawn_interval,
                                         difficulty.bomb_spawn_acceleration,
                                         IF game_mode = "Zor" THEN 100 ELSE 180)
                    ELSE bomb_spawn_interval
               /\ next_id' = id2
               /\ fruits' = Without(moved, missed, 1)
               /\ lives' = m.lives
               /\ life_loss_index' = m.life_loss_index
               /\ life_loss_timer' = m.life_loss_timer
               /\ game_over' = m.game_over
               /\ bombs' = [i \in 1..Len(bombs1) |-> Bomb_update(bombs1[i])]
               /\ sliced_fruits' =
                    Without(halves, {i \in 1..Len(halves) : ~SlicedFruit_is_alive(halves[i])}, 1)
               /\ particles' =
                    Without(dust, {i \in 1..Len(dust) : ~Particle_is_alive(dust[i])}, 1)
               /\ last' = [op |-> "update", n |-> Cardinality(missed)]
       /\ UNCHANGED << score, best_score, combo, combo_timer, show_title_screen,
                       bomb_flash_active, bomb_flash_timer, bomb_flash_center,
                       difficulty, game_over_frames >>
  /\ UNCHANGED << running, pointer, config, dropped, pure >>

\* ------------------------------------------------------------------------
\* draw (lines 1159-1251) with draw_ui (lines 1416-1461), then the loop test
\* of run (lines 1463-1468).  game_over_frames is the attribute
\* _game_over_frames, 0 while the attribute does not exist yet.
\* ------------------------------------------------------------------------
Draw ==
  /\ pc = "draw"
  /\ IF show_title_screen
       THEN UNCHANGED << running, life_loss_timer, game_over_frames >>
     ELSE IF game_over /\ bomb_flash_active /\ bomb_flash_center # <<>>
       THEN UNCHANGED << running, life_loss_timer, game_over_frames >>
     ELSE /\ life_loss_timer' = IF life_loss_timer > 0 THEN life_loss_timer - 1
                                ELSE life_loss_timer
          /\ IF game_over
               THEN /\ game_over_frames' = game_over_frames + 1
                    /\ running' = IF game_over_frames + 1 > (FPS * 3) \div 2
                                    THEN FALSE ELSE running
             ELSE UNCHANGED << running, game_over_frames >>
  /\ pc' = IF running' THEN "events" ELSE "done"
  /\ dropped' = <<>>
  /\ last' = [op |-> "draw", n |-> 0]
  /\ UNCHANGED << fruits, bombs, sliced_fruits, particles, score, best_score, lives,
                  game_over, combo, combo_timer, show_title_screen, bomb_flash_active,
                  bomb_flash_timer, bomb_flash_center, life_loss_index, spawn_timer,
                  spawn_interval, bomb_spawn_timer, bomb_spawn_interval, difficulty,
                  next_id, pointer, config, frame, pure >>

\* ------------------------------------------------------------------------
\* The session: FruitNinja.__init__ (lines 319-420), then run()
\* ------------------------------------------------------------------------
NoCall == [op |-> "none"]

Init ==
  /\ running = TRUE
  /\ fruits = <<>> /\ bombs = <<>> /\ sliced_fruits = <<>> /\ particles = <<>>
  /\ score = 0
  /\ best_score \in BestScores
  /\ lives = MAX_LIVES
  /\ game_over = FALSE
  /\ combo = 0 /\ combo_timer = 0
  /\ show_title_screen \in BOOLEAN
  /\ swipe_path = <<>> /\ swiping = FALSE
  /\ bomb_flash_active = FALSE /\ bomb_flash_timer = 0 /\ bomb_flash_center = <<>>
  /\ life_loss_timer = 0 /\ life_loss_index = -1
  /\ spawn_timer = 0 /\ bomb_spawn_timer = 0
  /\ game_mode \in Modes
  /\ spawn_interval = apply_game_mode_difficulty(game_mode).spawn_interval
  /\ bomb_spawn_interval = apply_game_mode_difficulty(game_mode).bomb_spawn_interval
  /\ difficulty = DifficultyOf(apply_game_mode_difficulty(game_mode))
  /\ fruit_images \in Catalogs
  /\ game_over_frames = 0
  /\ pc = "events"
  /\ frame = 0
  /\ next_id = 1
  /\ dropped = <<>>
  /\ last = [op |-> "init", n |-> 0]
  /\ call = NoCall /\ ret = NoCall

\* The playing ticks explored in a mode.
FrameLimit(mode) == IF mode = "Kolay" THEN KolayFrames ELSE MaxFrames

Next ==
  \/ EventQuit
  \/ EventMouseButtonDown(Points)
  \/ EventMouseButtonUp
  \/ EventMouseMotion(Points)
  \/ EventKeyDown
  \/ Update(FrameLimit(game_mode))
  \/ Draw

Spec == Init /\ [][Next]_vars

\* The session of a one-finger player in mode Zor without an image folder,
\* who never closes the window: longer sessions, fewer pointer positions.
OneFingerInit ==
  Init /\ game_mode = "Zor" /\ fruit_images = <<>> /\ ~show_title_screen

DeepNext ==
  \/ EventMouseButtonDown(OnePoint)
  \/ EventMouseButtonUp
  \/ EventMouseMotion(OnePoint)
  \/ EventKeyDown
  \/ Update(DeepFrames)
  \/ Draw

DeepSpec == OneFingerInit /\ [][DeepNext]_vars

\* The same player under the scheduling of run (lines 1463-1468): every
\* iteration of the loop calls update and then draw, whatever the events.
LiveNext ==
  \/ EventMouseButtonDown(OnePoint)
  \/ EventMouseButtonUp
  \/ EventMouseMotion(OnePoint)
  \/ EventKeyDown
  \/ Update(LiveFrames)
  \/ Draw

LiveSpec ==
  /\ OneFingerInit
  /\ [][LiveNext]_vars
  /\ WF_vars(Update(LiveFrames))
  /\ WF_vars(Draw)

\* The same player and scheduling over sessions long enough to hold a
\* game over, a restart and the game over of the second game.
OverNext ==
  \/ EventMouseButtonDown(OnePoint)
  \/ EventMouseButtonUp
  \/ EventMouseMotion(OnePoint)
  \/ EventKeyDown
  \/ Update(OverFrames)
  \/ Draw

OverSpec ==
  /\ OneFingerInit
  /\ [][OverNext]_vars
  /\ WF_vars(Update(OverFrames))
  /\ WF_vars(Draw)

\* The one-finger player in mode Zor with the image folder loaded, so that
\* sliced fruits leave their halves behind, under the same scheduling.
DecayInit ==
  /\ Init /\ game_mode = "Zor" /\ ~show_title_screen
  /\ fruit_images # <<>>

DecaySpec ==
  /\ DecayInit
  /\ [][LiveNext]_vars
  /\ WF_vars(Update(LiveFrames))
  /\ WF_vars(Draw)

\* ------------------------------------------------------------------------
\* check_slice and check_bomb_slice called on their own: the swipe path and
\* the entity are the inputs, call records them and ret the value returned.
\* ------------------------------------------------------------------------
SlicePoints == {<<100, 100>>, <<500, 100>>, <<500, 400>>}
SlicePaths ==
  UNION { [1..n -> SlicePoints] : n \in 0..3 }
\* Entity centres, in pixels: on the segments, at the radius from them, one
\* pixel nearer, and well away from them.
SliceCentres ==
  { <<300, 100>>, <<300, 200>>, <<300, 130>>, <<300, 129>>, <<530, 100>>,
    <<529, 100>>, <<282, 274>>, <<283, 273>>, <<470, 250>>, <<471, 250>>,
    <<100, 70>> }

SliceInit ==
  Init /\ game_mode = "Orta" /\ fruit_images = <<>> /\ ~show_title_screen

CallCheckSlice ==
  /\ \E path \in SlicePaths, c \in SliceCentres :
       LET fruit == Fruit(0, c[1] * Scale, c[2] * Scale, 0, 0, 0, <<>>)
       IN /\ call' = [op |-> "check_slice", path |-> path, x |-> fruit.x,
                      y |-> fruit.y, radius |-> fruit.radius]
          /\ ret' = check_slice(path, fruit)
  /\ UNCHANGED << running, session, pointer, config, pc, frame, dropped, last >>

CallCheckBombSlice ==
  /\ \E path \in SlicePaths, c \in SliceCentres :
       LET bomb == Bomb(0, c[1] * Scale, c[2] * Scale, 0, 0, 0)
       IN /\ call' = [op |-> "check_bomb_slice", path |-> path, x |-> bomb.x,
                      y |-> bomb.y, radius |-> bomb.radius]
          /\ ret' = check_bomb_slice(path, bomb)
  /\ UNCHANGED << running, session, pointer, config, pc, frame, dropped, last >>

SliceNext == CallCheckSlice \/ CallCheckBombSlice

SliceSpec == SliceInit /\ [][SliceNext]_vars

\* ------------------------------------------------------------------------
\* Fruit.update and Bomb.update called on their own, tick after tick, on an
\* entity placed as spawn_fruit and spawn_bomb place it or already in
\* flight: call records the entity at the start and the number of updates,
\* ret the entity now, the heights it has passed through and the values of
\* is_missed and is_off_screen for it.
\* ------------------------------------------------------------------------
\* x positions in pixels: the ends and the middle of randint(80, 720)
TrajXs == {80, 400, 720}
\* heights in pixels: in the field, at the launch height, below the field
TrajYs == {510, 570, 630}
\* horizontal velocities, in 1/Scale pixels per tick
TrajVXs == {-9 * Scale, 0, 9 * Scale}
\* vertical velocities, in 1/Scale pixels per tick
TrajVYs == {-15 * Scale, -105, 0}

TrajResult(entity, ys) ==
  [ entity |-> entity, ys |-> Append(ys, entity.y),
    is_missed |-> is_missed(entity), is_off_screen |-> is_off_screen(entity) ]

TrajInit ==
  Init /\ game_mode = "Orta" /\ fruit_images = <<>> /\ ~show_title_screen

NewFruit ==
  /\ \E x \in TrajXs, y \in TrajYs, vx \in TrajVXs, vy \in TrajVYs,
        image \in {<<>>, <<[fruit_type |-> "apple", radius |-> 35 * Scale,
                            sliced |-> TRUE]>>} :
       LET fruit == Fruit(0, x * Scale, y * Scale, vx, vy, 0, image)
       IN /\ call' = [op |-> "Fruit.update", n |-> 0, x |-> fruit.x,
                      y |-> fruit.y, vx |-> fruit.vx, vy |-> fruit.vy]
          /\ ret' = TrajResult(fruit, <<>>)
  /\ UNCHANGED << running, session, pointer, config, pc, frame, dropped, last >>

NewBomb ==
  /\ \E x \in TrajXs, y \in TrajYs, vx \in TrajVXs, vy \in TrajVYs :
       LET bomb == Bomb(0, x * Scale, y * Scale, vx, vy, 0)
       IN /\ call' = [op |-> "Bomb.update", n |-> 0, x |-> bomb.x,
                      y |-> bomb.y, vx |-> bomb.vx, vy |-> bomb.vy]
          /\ ret' = TrajResult(bomb, <<>>)
  /\ UNCHANGED << running, session, pointer, config, pc, frame, dropped, last >>

CallFruitUpdate ==
  /\ call.op = "Fruit.update"
  /\ call.n < TrajTicks
  /\ call' = [call EXCEPT !.n = call.n + 1]
  /\ ret' = TrajResult(Fruit_update(ret.entity), ret.ys)
  /\ UNCHANGED << running, session, pointer, config, pc, frame, dropped, last >>

CallBombUpdate ==
  /\ call.op = "Bomb.update"
  /\ call.n < TrajTicks
  /\ call' = [call EXCEPT !.n = call.n + 1]
  /\ ret' = TrajResult(Bomb_update(ret.entity), ret.ys)
  /\ UNCHANGED << running, session, pointer, config, pc, frame, dropped, last >>

TrajNext == NewFruit \/ NewBomb \/ CallFruitUpdate \/ CallBombUpdate

TrajSpec == TrajInit /\ [][TrajNext]_vars

\* ------------------------------------------------------------------------
\* spawn_fruit called on its own (lines 793-821) and the fruit it has made
\* followed through the updates of its flight: call records the mode, the
\* launch and the number of updates, ret as for Fruit.update above.
\* ------------------------------------------------------------------------
\* random.uniform(fruit_velocity_min, fruit_velocity_max): the two ends and
\* the middle of the range of the mode
LaunchVYs(mode) ==
  LET d == apply_game_mode_difficulty(mode)
  IN { d.fruit_velocity_min, d.fruit_velocity_max,
       (d.fruit_velocity_min + d.fruit_velocity_max) \div 2 }
\* random.uniform(-fruit_horizontal_velocity, fruit_horizontal_velocity)
LaunchVXs(mode) ==
  LET d == apply_game_mode_difficulty(mode)
  IN { -d.fruit_horizontal_velocity, 0, d.fruit_horizontal_velocity }
\* The whole image of the fruit type: none, or one scaled to 70 or 80 pixels.
LaunchImages ==
  { <<>>,
    <<[fruit_type |-> "apple", radius |-> 35 * Scale, sliced |-> TRUE]>>,
    <<[fruit_type |-> "apple", radius |-> 40 * Scale, sliced |-> TRUE]>> }

LaunchInit ==
  Init /\ game_mode = "Orta" /\ fruit_images = <<>> /\ ~show_title_screen

CallSpawnFruit ==
  /\ call = NoCall
  /\ \E mode \in Modes, x \in TrajXs, image \in LaunchImages :
       \E vx \in LaunchVXs(mode), vy \in LaunchVYs(mode) :
         LET fruit == spawn_fruit(0, x, vx, vy, 0, image)
         IN /\ call' = [op |-> "spawn_fruit", n |-> 0, mode |-> mode,
                        x |-> fruit.x, vx |-> fruit.vx, vy |-> fruit.vy,
                        radius |-> fruit.radius]
            /\ ret' = TrajResult(fruit, <<>>)
  /\ UNCHANGED << running, session, pointer, config, pc, frame, dropped, last >>

CallSpawnedUpdate ==
  /\ call.op = "spawn_fruit"
  /\ call.n < LaunchTicks
  /\ call' = [call EXCEPT !.n = call.n + 1]
  /\ ret' = TrajResult(Fruit_update(ret.entity), ret.ys)
  /\ UNCHANGED << running, session, pointer, config, pc, frame, dropped, last >>

LaunchNext == CallSpawnFruit \/ CallSpawnedUpdate

LaunchSpec == LaunchInit /\ [][LaunchNext]_vars

\* ------------------------------------------------------------------------
\* point_line_distance called on its own on a grid: the segment ends are
\* pointer positions in whole pixels, the point is an entity centre in
\* half pixels; call records the arguments of the one call made, ret the
\* squared distance it returns.
\* ------------------------------------------------------------------------
DistEnds == (0..DistGrid) \X (0..DistGrid)
DistCentres ==
  { <<i * (Scale \div 2), j * (Scale \div 2)>> :
      i \in 0..(2 * DistGrid), j \in 0..(2 * DistGrid) }

DistInit ==
  Init /\ game_mode = "Orta" /\ fruit_images = <<>> /\ ~show_title_screen

CallPointLineDistance ==
  /\ call = NoCall
  /\ \E p \in DistCentres, a \in DistEnds, b \in DistEnds :
       /\ call' = [op |-> "point_line_distance", px |-> p[1], py |-> p[2],
                   x1 |-> a[1], y1 |-> a[2], x2 |-> b[1], y2 |-> b[2]]
       /\ ret' = point_line_distance(p[1], p[2], a[1], a[2], b[1], b[2])
  /\ UNCHANGED << running, session, pointer, config, pc, frame, dropped, last >>

DistNext == CallPointLineDistance

DistSpec == DistInit /\ [][DistNext]_vars

\* ------------------------------------------------------------------------
\* apply_game_mode_difficulty called on its own (lines 710-746): the method
\* is applied once to the game object in a state a session of any mode has
\* reached, where spawns have shortened the intervals and there are
\* entities, points and lost lives for it to leave alone.
\* ------------------------------------------------------------------------
ModeInit == Init /\ ~show_title_screen

\* apply_game_mode_difficulty that restarts the spawn counters as well.
ApplyGameModeDifficulty_and_counters ==
  /\ call = NoCall
  /\ LET d == apply_game_mode_difficulty(game_mode)
     IN /\ spawn_interval' = d.spawn_interval
        /\ bomb_spawn_interval' = d.bomb_spawn_interval
        /\ difficulty' = DifficultyOf(d)
  /\ spawn_timer' = 0 /\ bomb_spawn_timer' = 0
  /\ call' = [op |-> "apply_game_mode_difficulty", mode |-> game_mode]
  /\ UNCHANGED << fruits, bombs, sliced_fruits, particles, score, best_score,
                  lives, game_over, combo, combo_timer, show_title_screen,
                  bomb_flash_active, bomb_flash_timer, bomb_flash_center,
                  life_loss_timer, life_loss_index, game_over_frames, next_id >>
  /\ UNCHANGED << running, pointer, config, pc, frame, dropped, last, ret >>

ApplyGameModeDifficulty ==
  /\ call = NoCall
  /\ LET d == apply_game_mode_difficulty(game_mode)
     IN /\ spawn_interval' = d.spawn_interval
        /\ bomb_spawn_interval' = d.bomb_spawn_interval
        /\ difficulty' = DifficultyOf(d)
  /\ call' = [op |-> "apply_game_mode_difficulty", mode |-> game_mode]
  /\ UNCHANGED << fruits, bombs, sliced_fruits, particles, score, best_score,
                  lives, game_over, combo, combo_timer, show_title_screen,
                  bomb_flash_active, bomb_flash_timer, bomb_flash_center,
                  life_loss_timer, life_loss_index, spawn_timer,
                  bomb_spawn_timer, game_over_frames, next_id >>
  /\ UNCHANGED << running, pointer, config, pc, frame, dropped, last, ret >>

\* The session up to the call.
ModeSession ==
  /\ call = NoCall
  /\ \/ EventMouseButtonDown(OnePoint)
     \/ EventMouseButtonUp
     \/ EventMouseMotion(OnePoint)
     \/ EventKeyDown
     \/ Update(ModeFrames)
     \/ Draw

ModeNext ==
  \/ ModeSession
  \/ ApplyGameModeDifficulty

ModeSpec == ModeInit /\ [][ModeNext]_vars

\* ------------------------------------------------------------------------
\* The phases of the session, as the code tells them apart: update returns
\* at once on the title screen (line 1089), runs only the flash timer while
\* game_over and bomb_flash_active (lines 1091-1099), and handle_events
\* lets the pointer slice only while neither game_over nor the title screen
\* is set (line 972).
\* ------------------------------------------------------------------------
Title == show_title_screen
Playing == ~show_title_screen /\ ~game_over
BombFlash == ~show_title_screen /\ game_over /\ bomb_flash_active
GameOver == ~show_title_screen /\ game_over /\ ~bomb_flash_active

\* The steps of the session loop.
UpdateStep == pc \in {"events", "update"} /\ pc' = "draw"
RestartStep == last'.op = "reset" /\ game_over /\ ~game_over'

\* ------------------------------------------------------------------------
\* Lives and game over
\* ------------------------------------------------------------------------
\* C1: in every reachable state lives is an integer of 0..MAX_LIVES; it
\* never becomes negative, also when several fruits are missed in one tick
\* or fruits fall after game over has been entered.
C1_LivesInRange == lives \in 0..MAX_LIVES

\* C2: once the session is in GameOver, no update tick and no pointer event
\* spawns a fruit or a bomb or changes score, lives or the fruit and bomb
\* collections; only the restart does.
C2_GameOverFrozen ==
  [][(GameOver /\ ~RestartStep) => UNCHANGED << fruits, bombs, score, lives >>]_vars

\* ------------------------------------------------------------------------
\* Combo and score
\* ------------------------------------------------------------------------
\* C3: the combo countdown is decremented on every Playing tick, and the
\* combo counter becomes 0 when the countdown has run out.
C3_ComboCountdown ==
  [][(Playing /\ UpdateStep) =>
       /\ combo_timer > 0 => combo_timer' = combo_timer - 1
       /\ combo_timer' = 0 => combo' = 0]_vars

\* C4: every fruit slice adds exactly 1 + max(0, combo - 1) to the score,
\* combo being the counter after its increment for this slice.  (A pointer
\* move that slices one fruit is one slice.)
C4_SlicePoints ==
  [][(last'.op = "slice" /\ last'.n = 1 /\ combo' = combo + 1) =>
       score' = score + 1 + Max(0, combo' - 1)]_vars

\* ------------------------------------------------------------------------
\* Geometry of the claims: whether the segment from a to b (pixels) passes
\* at a distance below r from the centre (cx, cy) (1/Scale pixels).  With
\* w the vector from a to the centre and d the vector from a to b, the
\* nearest point is a when w.d <= 0, b when w.d >= d.d, and otherwise the
\* foot of the perpendicular, at the squared distance w.w - (w.d)^2 / d.d.
\* ------------------------------------------------------------------------
SegmentNear(cx, cy, a, b, r) ==
  LET wx == cx - a[1] * Scale
      wy == cy - a[2] * Scale
      dx == b[1] - a[1]
      dy == b[2] - a[2]
      wd == wx * dx + wy * dy
      dd == dx * dx + dy * dy
      ex == cx - b[1] * Scale
      ey == cy - b[2] * Scale
  IN IF wd <= 0
       THEN WLess(WAdd(WMul(wx, wx), WMul(wy, wy)), WMul(r, r))
     ELSE IF wd >= Scale * dd
       THEN WLess(WAdd(WMul(ex, ex), WMul(ey, ey)), WMul(r, r))
     ELSE WLess(WAdd(WAdd(WMul(wx * dx, wx * dx), WMul(wx * dy, wx * dy)),
                     WAdd(WMul(wy * dx, wy * dx), WMul(wy * dy, wy * dy))),
                WAdd(WMul(r * r, dd), WMul(wd, wd)))

PathNear(path, x, y, r) ==
  \E i \in 1..(Len(path) - 1) : SegmentNear(x, y, path[i], path[i + 1], r)

\* ------------------------------------------------------------------------
\* Bomb flash and restart
\* ------------------------------------------------------------------------
\* A pointer move that makes the swipe path pass within the radius of a bomb
MoveNearBomb ==
  /\ pc = "events" /\ swiping
  /\ Len(swipe_path') = Len(swipe_path) + 1
  /\ \E i \in 1..Len(bombs) :
       PathNear(swipe_path', bombs[i].x, bombs[i].y, bombs[i].radius)

\* C5: in Playing, a pointer move that makes the swipe path pass within the
\* radius of a live bomb enters BombFlash in that same event (game over
\* set, flash active, flash timer 0, flash centre at a bomb the path
\* passes), whatever score, lives and combo are; every tick of BombFlash
\* advances the flash timer by one and ends the flash exactly when the
\* timer reaches the flash duration; and the session so gets from BombFlash
\* to GameOver with the flash inactive, unless it is restarted first.
C5_BombSliceFlash ==
  /\ [][(Playing /\ MoveNearBomb) =>
          /\ BombFlash' /\ bomb_flash_timer' = 0
          /\ \E i \in 1..Len(bombs) :
               /\ PathNear(swipe_path', bombs[i].x, bombs[i].y, bombs[i].radius)
               /\ bomb_flash_center' = <<bombs[i].x, bombs[i].y>>
          /\ UNCHANGED << score, lives, combo >>]_vars
  /\ [][(BombFlash /\ UpdateStep) =>
          /\ bomb_flash_timer' = bomb_flash_timer + 1
          /\ GameOver' <=> bomb_flash_timer' >= bomb_flash_duration
          /\ BombFlash' <=> bomb_flash_timer' < bomb_flash_duration]_vars
  /\ (BombFlash ~> (GameOver \/ ~game_over))

\* A bomb has just been sliced with fruits sliced before it.
C5_Witness ==
  /\ last.op = "bomb" /\ BombFlash /\ bomb_flash_timer = 0
  /\ bomb_flash_center # <<>> /\ score > 0 /\ combo > 0

\* C6: whenever GameOver is entered because lives reached 0, the bomb flash
\* is not active, whatever went before, also a bomb slice followed by a
\* restart before the flash had timed out.
C6_NoFlashAtLivesGameOver ==
  [][(UpdateStep /\ ~game_over /\ game_over') => ~bomb_flash_active']_vars

\* The fruit and bomb spawn intervals of a difficulty mode, in ticks.
ModeIntervals(mode) ==
  CASE mode = "Kolay" -> <<90, 9999>>
    [] mode = "Orta" -> <<55, 280>>
    [] mode = "Zor" -> <<35, 150>>

\* C7: a restart from GameOver yields lives = MAX_LIVES, score, combo and
\* combo countdown 0, empty fruit, bomb, split-halves and particle
\* collections, spawn counters 0 and the spawn intervals of the configured
\* mode, in phase Playing; and a second restart right after it leaves the
\* state as the first one left it.
C7_RestartFromGameOver ==
  /\ [][(GameOver /\ RestartStep) =>
          /\ lives' = MAX_LIVES /\ score' = 0 /\ combo' = 0 /\ combo_timer' = 0
          /\ fruits' = <<>> /\ bombs' = <<>>
          /\ sliced_fruits' = <<>> /\ particles' = <<>>
          /\ spawn_timer' = 0 /\ bomb_spawn_timer' = 0
          /\ spawn_interval' = ModeIntervals(game_mode)[1] * Tenths
          /\ bomb_spawn_interval' = ModeIntervals(game_mode)[2] * Tenths
          /\ Playing']_vars
  /\ [][(last.op = "reset" /\ last'.op = "space_ignored") =>
          UNCHANGED << running, session, pointer, config, pc, frame >>]_vars

\* A restart from GameOver after play that had shortened the spawn interval,
\* and a second restart signal right after it.
C7_Witness ==
  /\ last.op = "space_ignored" /\ Playing /\ ~bomb_flash_active
  /\ frame > 0 /\ fruits = <<>> /\ spawn_timer = 0 /\ game_over_frames > 0
  /\ game_mode = "Kolay"

\* A step that delivers the restart signal.
RestartSignal ==
  /\ pc = "events" /\ pc' = "events"
  /\ last' # last /\ last'.op \in {"reset", "space_ignored"}

\* C8: the restart signal is accepted only in GameOver; delivered in Title,
\* Playing or BombFlash it leaves the whole session state unchanged.
C8_RestartOnlyInGameOver ==
  [][(RestartSignal /\ ~GameOver) => UNCHANGED << running, session, pointer >>]_vars

\* ------------------------------------------------------------------------
\* Misses
\* ------------------------------------------------------------------------
\* The fruits whose top edge an update tick that simulates the entities
\* moves below the bottom boundary of the field.
FallingOut ==
  IF show_title_screen \/ (game_over /\ bomb_flash_active) THEN {}
  ELSE { i \in 1..Len(fruits) :
           fruits[i].y + fruits[i].vy - fruits[i].radius
             > (GAME_AREA_Y + GAME_AREA_HEIGHT) * Scale }

\* C9: in every update tick lives decreases by exactly the number of
\* unsliced fruits whose top edge passed below the bottom boundary of the
\* field in that tick, each of them is removed from the live fruits in the
\* same tick, and no other operation decreases lives.
C9_LivesCountMisses ==
  [][/\ UpdateStep =>
          /\ lives' = lives - Cardinality(FallingOut)
          /\ \A i \in FallingOut :
               \A j \in 1..Len(fruits') : fruits'[j].id # fruits[i].id
          /\ \A i \in (1..Len(fruits)) \ FallingOut :
               \E j \in 1..Len(fruits') : fruits'[j].id = fruits[i].id
     /\ lives' < lives => UpdateStep]_vars

\* Two fruits have been missed in one tick.
C9_Witness ==
  /\ last.op = "update" /\ last.n = 2 /\ lives = MAX_LIVES - 2
  /\ Len(fruits) > 0

\* ------------------------------------------------------------------------
\* Slicing
\* ------------------------------------------------------------------------
\* C10: check_slice and check_bomb_slice return true iff some pair of
\* consecutive points of the swipe path forms a segment whose distance to
\* the entity's centre is strictly less than its radius; a path of fewer
\* than 2 points never slices, a distance equal to the radius does not
\* slice, and the path [(100,100),(500,100)] slices a radius-30 entity at
\* (300,100) but not one at (300,200).
C10_SliceIff ==
  call.op \in {"check_slice", "check_bomb_slice"} =>
    /\ ret = PathNear(call.path, call.x, call.y, call.radius)
    /\ Len(call.path) < 2 => ret = FALSE
    /\ (call.path = << <<100, 100>>, <<500, 100>> >> /\ call.radius = 30 * Scale) =>
         /\ (call.x = 300 * Scale /\ call.y = 100 * Scale) => ret = TRUE
         /\ (call.x = 300 * Scale /\ call.y = 200 * Scale) => ret = FALSE
         /\ (call.x = 300 * Scale /\ call.y = 130 * Scale) => ret = FALSE

\* A two-segment path whose second segment alone slices the entity.
C10_Witness ==
  /\ call.op = "check_slice" /\ ret = TRUE
  /\ call.path = << <<100, 100>>, <<500, 100>>, <<500, 400>> >>
  /\ call.x = 471 * Scale /\ call.y = 250 * Scale

\* ------------------------------------------------------------------------
\* Swipe path
\* ------------------------------------------------------------------------
\* C11: the swipe path is non-empty only while the pointer button is held:
\* once a release event has been delivered in a frame's batch, the path is
\* empty and tracking is off, also when the release follows a move that
\* slices a bomb.
C11_PathOnlyWhileHeld ==
  /\ swipe_path # <<>> => swiping
  /\ (\E i \in 1..Len(dropped) : dropped[i] = "MOUSEBUTTONUP") =>
       (swipe_path = <<>> /\ ~swiping)


\* ------------------------------------------------------------------------
\* Bombs
\* ------------------------------------------------------------------------
\* C12: a bomb that has fallen below the bottom boundary of the field by its
\* margin (is_off_screen) is removed from the live bombs by the end of that
\* update tick: after a tick the bomb collection holds no off-field bomb.
C12_NoOffFieldBomb ==
  (Playing /\ pc = "draw") =>
    \A i \in 1..Len(bombs) : ~is_off_screen(bombs[i])


\* ------------------------------------------------------------------------
\* Slice effects
\* ------------------------------------------------------------------------
\* A pointer move that slices at least one fruit (and no bomb).
SliceStep ==
  pc = "events" /\ pc' = "events" /\ ~game_over /\ ~game_over'
    /\ Len(fruits') < Len(fruits)

\* The fruits a step removes from the live fruits.
Removed == { i \in 1..Len(fruits) :
               \A j \in 1..Len(fruits') : fruits'[j].id # fruits[i].id }

\* C13: every fruit slice adds exactly one SplitHalves object at the fruit's
\* position and a burst of 5 juice-coloured and 2 fragment-coloured
\* particles, for every fruit, the fallback fruit without images included.
C13_SliceAddsHalvesAndBurst ==
  [][SliceStep =>
       LET n == Cardinality(Removed)
           h == Len(sliced_fruits)
           p == Len(particles)
       IN /\ Len(sliced_fruits') = h + n
          /\ \A i \in Removed :
               \E j \in (h + 1)..Len(sliced_fruits') :
                 sliced_fruits'[j].x = fruits[i].x
                   /\ sliced_fruits'[j].y = fruits[i].y
          /\ Len(particles') = p + 7 * n
          /\ Cardinality({j \in (p + 1)..Len(particles') :
                            particles'[j].color = "YELLOW"}) = 2 * n
          /\ Cardinality({j \in (p + 1)..Len(particles') :
                            particles'[j].color # "YELLOW"}) = 5 * n]_vars


\* A pointer move that slices a bomb.
BombSliceStep ==
  pc = "events" /\ ~game_over /\ game_over' /\ bomb_flash_active'

\* C14: slicing a bomb empties the live fruits and bombs and leaves the
\* split halves, the particles, the score, the best score, the lives and the
\* combo unchanged, also when the same path passes within radius of live
\* fruits: no fruit is scored in that event.
C14_BombSliceScoresNothing ==
  [][BombSliceStep =>
       /\ fruits' = <<>>
       /\ bombs' = <<>>
       /\ UNCHANGED << sliced_fruits, particles, score, best_score, lives,
                       combo >>]_vars

\* A bomb has just been sliced by a path that also passed a live fruit.
C14_Witness ==
  /\ last.op = "bomb" /\ last.passed >= 1
  /\ BombFlash /\ bomb_flash_timer = 0 /\ pc = "update"
  /\ fruits = <<>> /\ bombs = <<>>


\* ------------------------------------------------------------------------
\* Bomb flash ticks
\* ------------------------------------------------------------------------
\* An update tick taken while the bomb flash is showing.
FlashTick == BombFlash /\ UpdateStep

\* C15: while the session is in BombFlash, an update tick changes only the
\* flash timer, plus the flash-active flag on the tick the flash expires:
\* spawn counters and intervals, entities, split halves, particles, score,
\* lives and combo stay as they are.  The timer is 0 at the bomb slice, only
\* flash ticks advance it, and the flash ends on exactly the 42nd of them.
C15_FlashTicksOnlyTimer ==
  /\ [][FlashTick =>
          /\ bomb_flash_timer' = bomb_flash_timer + 1
          /\ bomb_flash_active' <=> bomb_flash_timer' # 42
          /\ UNCHANGED << fruits, bombs, sliced_fruits, particles, score,
                          best_score, lives, game_over, combo, combo_timer,
                          spawn_timer, spawn_interval, bomb_spawn_timer,
                          bomb_spawn_interval, difficulty, next_id,
                          bomb_flash_center, life_loss_timer, life_loss_index,
                          show_title_screen, game_over_frames, running,
                          pointer, config >>]_vars
  /\ [][BombSliceStep => bomb_flash_timer' = 0]_vars
  /\ [][(bomb_flash_timer' # bomb_flash_timer) =>
          (FlashTick \/ BombSliceStep)]_vars
  /\ [](BombFlash => bomb_flash_timer \in 0..41)

\* The flash has just expired, on its 42nd tick.
C15_Witness ==
  /\ last.op = "update_flash" /\ pc = "draw"
  /\ bomb_flash_timer = 42 /\ GameOver


\* ------------------------------------------------------------------------
\* Draw
\* ------------------------------------------------------------------------
\* The draw step of the session loop.
DrawStep == pc = "draw" /\ pc' # "draw"

\* C16: the draw step leaves the session state unchanged in every phase:
\* after draw() every state variable, the life-loss animation timer, the
\* game-over frame counter and the running flag of the loop included, has
\* the value it had before.
C16_DrawChangesNothing ==
  [][DrawStep => UNCHANGED << running, session, pointer, config >>]_vars


\* ------------------------------------------------------------------------
\* Score and best score
\* ------------------------------------------------------------------------
\* C17: in every reachable state best_score >= score >= 0; no step (slice,
\* miss, bomb slice, tick, restart) decreases best_score; a restart resets
\* the score to 0 and leaves best_score as it is.
C17_BestScoreBounds ==
  /\ [](best_score >= score /\ score >= 0)
  /\ [][best_score' >= best_score]_vars
  /\ [][RestartStep => (score' = 0 /\ best_score' = best_score)]_vars

\* A restart has just been accepted after the session's score had raised the
\* best score above the value loaded from best_score.txt.
C17_Witness ==
  /\ last.op = "reset" /\ pc = "events" /\ ~game_over
  /\ score = 0 /\ \A b \in BestScores : best_score > b


\* ------------------------------------------------------------------------
\* Bombs per mode
\* ------------------------------------------------------------------------
\* C18: in the easiest mode, Kolay, no bomb is ever spawned: in every
\* reachable state the bomb collection is empty and the session is not in
\* BombFlash, and no step changes the bomb spawn counter or the bomb spawn
\* interval.
C18_KolayHasNoBombs ==
  /\ [](game_mode = "Kolay" =>
          (bombs = <<>> /\ ~BombFlash /\ ~bomb_flash_active))
  /\ [][game_mode = "Kolay" =>
          UNCHANGED << bomb_spawn_timer, bomb_spawn_interval >>]_vars

\* A Kolay session still playing after 300 update ticks, fruits in the air.
C18_Witness ==
  /\ game_mode = "Kolay" /\ Playing /\ pc = "draw" /\ last.op = "update"
  /\ frame >= 300 /\ fruits # <<>> /\ bomb_spawn_timer = 0


\* ------------------------------------------------------------------------
\* Spawn intervals
\* ------------------------------------------------------------------------
\* An update tick that runs the spawn and entity part of update.
NormalTick == UpdateStep /\ ~Title /\ ~BombFlash
FruitSpawnStep == NormalTick /\ spawn_timer' = 0
BombSpawnStep == NormalTick /\ Len(bombs') > Len(bombs)
FruitFloor == (IF game_mode = "Zor" THEN 20 ELSE 30) * Tenths
BombFloor == (IF game_mode = "Zor" THEN 100 ELSE 180) * Tenths

LivesOf(objects) == [i \in 1..Len(objects) |-> objects[i].life]
StillAlive(life) == life > 0
\* The remaining lives after one tick: each one less, the expired ones gone.
Aged(left) == SelectSeq([i \in 1..Len(left) |-> left[i] - 1], StillAlive)
\* The collection after a step that only adds fresh objects of full life.
Extended(old, new, full) ==
  /\ Len(old) <= Len(new)
  /\ SubSeq(new, 1, Len(old)) = old
  /\ \A j \in (Len(old) + 1)..Len(new) : new[j].life = full

\* C20: after the cleanup pass of every update tick every SplitHalves in its
\* collection has remaining life in 1..60 and every Particle in 1..30; the
\* remaining life of an object never increases (a tick takes one off, no
\* other step touches it), and an object removed from its collection is
\* never re-added (a collection only loses expired objects, is emptied by a
\* restart, or gains fresh objects of full life at its end).
C20_LifetimesBounded ==
  /\ [](/\ \A i \in 1..Len(sliced_fruits) : sliced_fruits[i].life \in 1..60
        /\ \A i \in 1..Len(particles) : particles[i].life \in 1..30)
  /\ [][NormalTick =>
          /\ LivesOf(sliced_fruits') = Aged(LivesOf(sliced_fruits))
          /\ LivesOf(particles') = Aged(LivesOf(particles))
          /\ \A i \in 1..Len(sliced_fruits') : sliced_fruits'[i].life <= 59
          /\ \A i \in 1..Len(particles') : particles'[i].life <= 29]_vars
  /\ [][~NormalTick =>
          /\ \/ RestartStep /\ sliced_fruits' = <<>>
             \/ Extended(sliced_fruits, sliced_fruits', 60)
          /\ \/ RestartStep /\ particles' = <<>>
             \/ Extended(particles, particles', 30)]_vars

\* The tick before a SplitHalves expires: its life is down to 1, the
\* particles of its slice have gone already.
C20_Witness ==
  /\ pc = "draw" /\ last.op = "update"
  /\ \E i \in 1..Len(sliced_fruits) : sliced_fruits[i].life = 1
  /\ particles = <<>>


\* ------------------------------------------------------------------------
\* Flight of a fruit
\* ------------------------------------------------------------------------
\* The fruit at (400, 510) with velocity (0, -15), updated n times.
ScenarioFruit(n) ==
  /\ call.op = "Fruit.update" /\ call.n = n
  /\ call.x = 400 * Scale /\ call.y = 510 * Scale
  /\ call.vx = 0 /\ call.vy = -15 * Scale
\* The heights fall from sample k to sample k + 1.
Falls(ys, k) == ys[k + 1] > ys[k]
Rises(ys, k) == ys[k + 1] < ys[k]
\* The fruit has gone up the screen (y decreasing) and later come down.
ApexReached(ys) ==
  \E j, k \in 1..(Len(ys) - 1) : j < k /\ Rises(ys, j) /\ Falls(ys, k)

\* C21 as stated: the fruit at (400, 510) with velocity (0, -15), stepped 10
\* ticks with Fruit.update, has a y that first decreases and then begins
\* increasing within those 10 ticks, vy growing by the gravity each tick.
C21_ApexWithinTenTicks ==
  ScenarioFruit(10) =>
    (ApexReached(ret.ys) /\ ret.entity.vy = -15 * Scale + 10 * GRAVITY)

\* C21, amended: vy grows by the constant gravity 0.35 on every tick, which
\* after 10 ticks leaves it at -11.5, still upwards: the y of the fruit
\* decreases on every one of the 10 ticks (to 375.75) and the apex is not
\* reached within them.
C21_StillRisingAfterTenTicks ==
  \A n \in 0..10 :
    ScenarioFruit(n) =>
      /\ ret.entity.vy = -15 * Scale + n * GRAVITY
      /\ ret.entity.vy < 0
      /\ Len(ret.ys) = n + 1
      /\ \A k \in 1..n : Rises(ret.ys, k)
      /\ ~ApexReached(ret.ys)

\* The scenario's fruit after its 10th update.
C21_Witness ==
  /\ ScenarioFruit(10)
  /\ ret.entity.y = 37575 /\ ret.entity.vy = -1150 /\ ret.entity.x = 400 * Scale


\* ------------------------------------------------------------------------
\* Distance from a point to a segment
\* ------------------------------------------------------------------------
\* The squared distance, times n * n, from the point of the call to the
\* point of its segment at parameter t / n, in (1/Scale pixel)^2.
SquaredToSample(t, n) ==
  LET A == call.px - call.x1 * Scale
      B == call.py - call.y1 * Scale
      C == (call.x2 - call.x1) * Scale
      D == (call.y2 - call.y1) * Scale
  IN (n * A - t * C) * (n * A - t * C) + (n * B - t * D) * (n * B - t * D)

\* The squared distance to the clamped projection, times the squared length
\* of the segment in pixels: |p - a|^2 |b - a|^2 - ((p - a) . (b - a))^2
\* when the projection falls on the segment, the squared distance to the
\* nearer end otherwise.
SquaredToClamped ==
  LET A == call.px - call.x1 * Scale
      B == call.py - call.y1 * Scale
      C == call.x2 - call.x1
      D == call.y2 - call.y1
      dot == A * C + B * D
      len_sq == C * C + D * D
  IN IF dot <= 0 THEN (A * A + B * B) * len_sq
     ELSE IF dot >= Scale * len_sq
       THEN ((A - C * Scale) * (A - C * Scale)
               + (B - D * Scale) * (B - D * Scale)) * len_sq
     ELSE (A * A + B * B) * len_sq - dot * dot

\* C22: on the grid, point_line_distance(p, a, b) is the minimum Euclidean
\* distance from p to the closed segment a-b: it is the distance to the
\* projection of p clamped to the segment, no point of the segment (sampled
\* at every quarter of it) is nearer, and for a = b it is the distance from
\* p to that point, without a division by zero.
C22_DistanceToSegment ==
  call.op = "point_line_distance" =>
    LET len_sq == (call.x2 - call.x1) * (call.x2 - call.x1)
                    + (call.y2 - call.y1) * (call.y2 - call.y1)
    IN /\ ret.den > 0 /\ ret.num.hi = 0
       /\ len_sq = 0 =>
            WInt(ret.num) = ret.den * SquaredToSample(0, 1)
       /\ len_sq > 0 =>
            WInt(ret.num) * len_sq = ret.den * SquaredToClamped
       /\ \A t \in 0..4 :
            ret.den * SquaredToSample(t, 4) >= 16 * WInt(ret.num)

\* A call whose point projects beyond the end b of a slanted segment, and
\* the squared distance returned for it, 1^2 + 0.5^2 pixels.
C22_Witness ==
  /\ call = [op |-> "point_line_distance", px |-> 3 * Scale,
             py |-> 2 * Scale + Scale \div 2, x1 |-> 0, y1 |-> 0,
             x2 |-> 2, y2 |-> 2]
  /\ WInt(ret.num) = 12500 * ret.den


\* ------------------------------------------------------------------------
\* Title
\* ------------------------------------------------------------------------
\* The segment from a to b, in pixels, passes over the title hot zone: the
\* span of its x meets 250..550 and the span of its y meets 325..375.
OverHotZone(a, b) ==
  /\ Min(a[1], b[1]) <= 550 /\ Max(a[1], b[1]) >= 250
  /\ Min(a[2], b[2]) <= 375 /\ Max(a[2], b[2]) >= 325

C24_CloseRequestStopsLoop ==
  (\E i \in 1..Len(dropped) : dropped[i] = "QUIT") => ~running


\* ------------------------------------------------------------------------
\* Phase flags
\* ------------------------------------------------------------------------
\* C25: the phase flags are mutually exclusive in every reachable state: the
\* title flag and the game-over flag are never both set, and the bomb-flash
\* flag is set only while the game-over flag is set, never during Title or
\* Playing, after any sequence of ticks, bomb slices and restarts.
C25_PhaseFlagsExclusive ==
  /\ ~(show_title_screen /\ game_over)
  /\ bomb_flash_active => game_over


\* ------------------------------------------------------------------------
\* Segments of the swipe path
\* ------------------------------------------------------------------------
\* The entity of the call is within its radius of the newest segment of the
\* path of the call, the one between its last two points.
NearNewestSegment ==
  LET n == Len(call.path)
  IN /\ n >= 2
     /\ DistanceLess(point_line_distance(call.x, call.y,
                       call.path[n - 1][1], call.path[n - 1][2],
                       call.path[n][1], call.path[n][2]),
                     call.radius)

\* C26: the slice decision for an entity depends only on the newest segment
\* of the swipe path (its last two points): an entity within radius of an
\* older segment but farther than radius from the newest one is not sliced.
C26_NewestSegmentDecides ==
  call.op \in {"check_slice", "check_bomb_slice"} => (ret <=> NearNewestSegment)


\* ------------------------------------------------------------------------
\* Entities crossed by one pointer move
\* ------------------------------------------------------------------------
\* A pointer move taken in Playing while the button is held.
PlayingMove ==
  /\ Playing /\ pc = "events" /\ swiping
  /\ Len(swipe_path') = Len(swipe_path) + 1
\* The live fruits the path crosses once the move has been appended to it.
CrossedFruits ==
  { i \in 1..Len(fruits) :
      PathNear(swipe_path', fruits[i].x, fruits[i].y, fruits[i].radius) }
BombCrossed ==
  \E i \in 1..Len(bombs) :
    PathNear(swipe_path', bombs[i].x, bombs[i].y, bombs[i].radius)
\* Every crossed fruit is sliced, scored and removed, the others stay.
FruitsRegistered ==
  LET n == Cardinality(CrossedFruits)
  IN /\ fruits' = Without(fruits, CrossedFruits, 1)
     /\ combo' = combo + n
     /\ score' >= score + 2 * n
     /\ n = 0 => score' = score
     /\ Len(particles') = Len(particles) + 7 * n

\* C27 as stated: in Playing, on every pointer move while the button is
\* held, all entities the path crosses in that event are registered: each
\* crossed fruit is sliced, scored and removed in that same event, whatever
\* the number and kinds of entities crossed.
C27_AllCrossedFruitsScored ==
  [][PlayingMove => FruitsRegistered]_vars

\* C27, amended: on every such move every live bomb and fruit is tested
\* against the path.  If the path crosses no bomb, each crossed fruit is
\* sliced, scored and removed in that same event, however many there are; if
\* it crosses a bomb, the bomb flash begins, the fruits and bombs are cleared
\* and no fruit is scored.
C27_CrossedFruitsScoredUnlessBomb ==
  [][PlayingMove =>
       IF BombCrossed
         THEN /\ BombFlash' /\ fruits' = <<>> /\ bombs' = <<>>
              /\ UNCHANGED << score, combo, particles, sliced_fruits >>
       ELSE FruitsRegistered /\ UNCHANGED << bombs, game_over >>]_vars

\* One move has just sliced two fruits, a third one staying in the air.
C27_Witness ==
  /\ last.op = "slice" /\ last.n = 2 /\ pc = "events" /\ Playing
  /\ combo = 2 /\ score >= 4 /\ fruits # <<>>


\* ------------------------------------------------------------------------
\* Spawn counters
\* ------------------------------------------------------------------------
\* The fruits and the bombs a step has added: entity ids are handed out in
\* order of creation, next_id being the next one.
SpawnedFruits == { i \in 1..Len(fruits') : fruits'[i].id >= next_id }
SpawnedBombs == { i \in 1..Len(bombs') : bombs'[i].id >= next_id }

\* C28: in each Playing tick the fruit spawn counter increments by 1 and a
\* fruit is spawned iff the counter has then reached the interval, after
\* which the counter is 0; so at most one fruit and at most one bomb are
\* spawned per tick, 0 <= counter < interval holds at the end of every
\* tick, and the bomb counter goes its own way by the same rule, whatever
\* the fruit counter does.
C28_SpawnCounters ==
  /\ [][(Playing /\ UpdateStep) =>
          LET reached == (spawn_timer + 1) * Tenths >= spawn_interval
              bomb_reached == (bomb_spawn_timer + 1) * Tenths >= bomb_spawn_interval
          IN /\ spawn_timer' = IF reached THEN 0 ELSE spawn_timer + 1
             /\ Cardinality(SpawnedFruits) = IF reached THEN 1 ELSE 0
             /\ game_mode # "Kolay" =>
                  /\ bomb_spawn_timer' =
                       IF bomb_reached THEN 0 ELSE bomb_spawn_timer + 1
                  /\ Cardinality(SpawnedBombs) = IF bomb_reached THEN 1 ELSE 0
             /\ game_mode = "Kolay" =>
                  (bomb_spawn_timer' = bomb_spawn_timer /\ SpawnedBombs = {})]_vars
  /\ [](/\ 0 <= spawn_timer /\ spawn_timer * Tenths < spawn_interval
        /\ 0 <= bomb_spawn_timer
        /\ bomb_spawn_timer * Tenths < bomb_spawn_interval)

\* The end of a Playing tick that has spawned a bomb and no fruit.
C28_Witness ==
  /\ Playing /\ pc = "draw" /\ last.op = "update"
  /\ bomb_spawn_timer = 0 /\ spawn_timer > 0
  /\ \E i \in 1..Len(bombs) : bombs[i].pulse_timer = 1 /\ bombs[i].id = next_id - 1


\* ------------------------------------------------------------------------
\* Horizontal clamp
\* ------------------------------------------------------------------------
\* C29: for every fruit and bomb, after every update radius <= x <=
\* SCREEN_WIDTH - radius (800 - radius) holds, for every spawn position and
\* horizontal velocity the spawner can produce, and the radius is positive.
C29_ClampedToField ==
  (call.op \in {"Fruit.update", "Bomb.update"} /\ call.n >= 1) =>
    /\ ret.entity.radius > 0
    /\ ret.entity.radius <= ret.entity.x
    /\ ret.entity.x <= 800 * Scale - ret.entity.radius

\* A fruit of radius 35 launched at x = 80 with horizontal velocity -9 has
\* run into the left edge of the field and is held at x = 35.
C29_Witness ==
  /\ call.op = "Fruit.update" /\ call.n = 6
  /\ call.x = 80 * Scale /\ call.vx = -9 * Scale
  /\ ret.entity.radius = 35 * Scale /\ ret.entity.x = 35 * Scale


\* ------------------------------------------------------------------------
\* Out of the field
\* ------------------------------------------------------------------------
\* The top edge of the entity of the call, in 1/Scale pixels.
TopEdge == ret.entity.y - ret.entity.radius

\* C30: Fruit.is_missed is true iff the top edge of the fruit (y - radius)
\* is strictly below the bottom boundary of the field (GAME_AREA_Y +
\* GAME_AREA_HEIGHT = 540), with margin 0, and Bomb.is_off_screen is true
\* iff the top edge of the bomb is strictly below that boundary plus a
\* margin of 60; a top edge exactly on the boundary is not out of the field.
C30_OutOfFieldMargins ==
  /\ GAME_AREA_Y + GAME_AREA_HEIGHT = 540
  /\ call.op = "Fruit.update" =>
       /\ ret.is_missed <=> TopEdge > 540 * Scale
       /\ TopEdge = 540 * Scale => ~ret.is_missed
  /\ call.op = "Bomb.update" =>
       /\ ret.is_off_screen <=> TopEdge > (540 + 60) * Scale
       /\ TopEdge = (540 + 60) * Scale => ~ret.is_off_screen

\* A bomb whose top edge is exactly on the boundary plus the margin after an
\* update (y = 630, radius 30): it is not off the screen.
C30_Witness ==
  /\ call.op = "Bomb.update" /\ call.n = 1
  /\ call.y = 630 * Scale /\ call.vy = 0
  /\ TopEdge = 600 * Scale /\ ~ret.is_off_screen


\* ------------------------------------------------------------------------
\* Decay of split halves and particles
\* ------------------------------------------------------------------------
\* A step takes objects out of the split halves or out of the particles.
HalvesRemoved == Len(sliced_fruits') < Len(sliced_fruits)
ParticlesRemoved == Len(particles') < Len(particles)
\* The objects of a collection that a tick of update ages to life 0.
Expiring(objects) == { i \in 1..Len(objects) : objects[i].life = 1 }
\* Ticks of update no longer run: the loop has ended or the explored ticks
\* are used up.
TicksStopped == ~running \/ pc = "done" \/ frame >= LiveFrames

\* C31 as stated: every SplitHalves and every Particle created by a slice
\* leaves its collection by the cleanup pass of exactly the 60th (30th)
\* update tick that simulates it: objects are removed only by a simulating
\* tick, and only those whose life that tick brings to 0.
C31_RemovedOnlyByCleanup ==
  /\ [][HalvesRemoved =>
          /\ NormalTick
          /\ Len(sliced_fruits) - Len(sliced_fruits')
               = Cardinality(Expiring(sliced_fruits))]_vars
  /\ [][ParticlesRemoved =>
          /\ NormalTick
          /\ Len(particles) - Len(particles')
               = Cardinality(Expiring(particles))]_vars


\* Some object of the collection has exactly this much life left.
HasLife(objects, k) == \E i \in 1..Len(objects) : objects[i].life = k
\* Enough of the explored ticks are left for a bomb flash to run out and one
\* more tick to simulate the objects.
TicksLeft == frame + bomb_flash_duration < LiveFrames

\* C31: provided ticks keep running, every SplitHalves and every Particle
\* is eventually removed: a simulating tick takes one tick of life off every
\* object and its cleanup pass removes exactly the objects whose life it
\* brings to 0 (the 60th, or the 30th, tick that simulates them), and such a
\* tick does come for an object fresh from a slice and for one on its last
\* tick.  Ticks spent in BombFlash leave the collections as they are, and
\* the one other removal is a restart, which empties both collections at
\* once whatever life their objects have left.
C31_ExpiredByCleanupOrRestart ==
  /\ [][NormalTick =>
          /\ Len(sliced_fruits')
               = Len(sliced_fruits) - Cardinality(Expiring(sliced_fruits))
          /\ Len(particles')
               = Len(particles) - Cardinality(Expiring(particles))
          /\ \A k \in 2..60 :
               HasLife(sliced_fruits, k) <=> HasLife(sliced_fruits', k - 1)
          /\ \A k \in 2..30 :
               HasLife(particles, k) <=> HasLife(particles', k - 1)
          /\ ~HasLife(sliced_fruits', 60) /\ ~HasLife(particles', 30)]_vars
  /\ [][HalvesRemoved =>
          (NormalTick \/ (RestartStep /\ sliced_fruits' = <<>>))]_vars
  /\ [][ParticlesRemoved =>
          (NormalTick \/ (RestartStep /\ particles' = <<>>))]_vars
  /\ [][FlashTick => UNCHANGED << sliced_fruits, particles >>]_vars
  /\ \A k \in {1, 60} :
       (HasLife(sliced_fruits, k) /\ TicksLeft)
         ~> (~HasLife(sliced_fruits, k) \/ ~running)
  /\ \A k \in {1, 30} :
       (HasLife(particles, k) /\ TicksLeft)
         ~> (~HasLife(particles, k) \/ ~running)

\* A bomb flash has run for 30 ticks and more over the halves and the
\* particles of an earlier slice: the particles are still there, the flash
\* ticks have not aged them.
C31_Witness ==
  /\ BombFlash /\ pc = "draw" /\ last.op = "update_flash"
  /\ bomb_flash_timer >= 30
  /\ sliced_fruits # <<>> /\ particles # <<>>


\* ------------------------------------------------------------------------
\* Frame of apply_game_mode_difficulty
\* ------------------------------------------------------------------------
\* The step is the call of apply_game_mode_difficulty.
ApplyStep == call = NoCall /\ call'.op = "apply_game_mode_difficulty"

\* C32: applying a difficulty mode sets the two spawn intervals, the two
\* spawn accelerations and the velocity ranges to the preset values of the
\* mode and nothing else: score, best score, lives, combo, the spawn
\* counters and the four entity collections are as they were, and so is the
\* rest of the session.
C32_ApplyTouchesDifficultyOnly ==
  [][ApplyStep =>
       /\ spawn_interval' = ModeIntervals(game_mode)[1] * Tenths
       /\ bomb_spawn_interval' = ModeIntervals(game_mode)[2] * Tenths
       /\ difficulty' = DifficultyOf(apply_game_mode_difficulty(game_mode))
       /\ UNCHANGED << score, best_score, lives, combo, combo_timer,
                       spawn_timer, bomb_spawn_timer,
                       fruits, bombs, sliced_fruits, particles >>
       /\ UNCHANGED << game_over, show_title_screen, bomb_flash_active,
                       bomb_flash_timer, bomb_flash_center, life_loss_timer,
                       life_loss_index, game_over_frames, next_id,
                       running, pointer, config >>]_vars

\* The method has been applied in the middle of a session: both spawn
\* counters are running, a fruit has been sliced and its particles are in
\* the air, a life is lost, and the fruit interval is back at the preset of
\* the mode after the spawns had shortened it.
C32_Witness ==
  /\ call.op = "apply_game_mode_difficulty"
  /\ spawn_timer > 0 /\ bomb_spawn_timer > 0 /\ particles # <<>>
  /\ score > 0 /\ lives < MAX_LIVES /\ next_id > 2
  /\ spawn_interval = ModeIntervals(game_mode)[1] * Tenths


\* ------------------------------------------------------------------------
\* The fate of a fruit
\* ------------------------------------------------------------------------
FruitIds(fs) == { fs[i].id : i \in 1..Len(fs) }
\* The fruits a step takes out of the live fruits.
Gone == FruitIds(fruits) \ FruitIds(fruits')
\* The points of n slices in a row that continue a combo of c.
RECURSIVE PointsOfSlices(_, _)
PointsOfSlices(c, n) ==
  IF n = 0 THEN 0 ELSE slice_points(c + 1) + PointsOfSlices(c + 1, n - 1)
\* The four ways a fruit leaves the live fruits.
SlicedAway ==
  /\ pc = "events" /\ Playing /\ Playing'
  /\ score' = score + PointsOfSlices(combo, Cardinality(Gone))
  /\ combo' = combo + Cardinality(Gone)
  /\ lives' = lives
MissedAway ==
  /\ UpdateStep
  /\ lives' = lives - Cardinality(Gone)
  /\ UNCHANGED << score, combo >>
ClearedByBomb ==
  /\ BombSliceStep /\ fruits' = <<>>
  /\ UNCHANGED << score, combo, lives >>
ClearedByRestart ==
  /\ RestartStep /\ fruits' = <<>>
  /\ score' = 0 /\ combo' = 0 /\ lives' = MAX_LIVES

\* C33: every fruit is resolved at most once.  The live fruits are distinct,
\* a fruit that has left them never comes back, and a step that takes
\* fruits out is exactly one of: a slice, which scores each of them once
\* and costs no life; a tick in which they are missed, which costs one life
\* each and scores nothing; a bomb slice or a restart, which clear them all
\* unscored.  No step scores or takes a life without taking out the fruits
\* it is for.
C33_ResolvedOnce ==
  /\ [](/\ \A i, j \in 1..Len(fruits) : fruits[i].id = fruits[j].id => i = j
        /\ \A i \in 1..Len(fruits) : fruits[i].id < next_id)
  /\ [][/\ next_id' >= next_id
        /\ \A j \in 1..Len(fruits') :
             fruits'[j].id \in FruitIds(fruits) \/ fruits'[j].id >= next_id]_vars
  /\ [][Gone # {} =>
          \/ SlicedAway /\ ~MissedAway /\ ~ClearedByBomb /\ ~ClearedByRestart
          \/ MissedAway /\ ~SlicedAway /\ ~ClearedByBomb /\ ~ClearedByRestart
          \/ ClearedByBomb /\ ~SlicedAway /\ ~MissedAway /\ ~ClearedByRestart
          \/ ClearedByRestart /\ ~SlicedAway /\ ~MissedAway /\ ~ClearedByBomb]_vars
  /\ [][(score' > score \/ lives' < lives) => Gone # {}]_vars

\* A bomb slice has just cleared a fruit in a game in which another fruit
\* was sliced and a third one missed.
C33_Witness ==
  /\ last.op = "bomb" /\ last.passed >= 1 /\ BombFlash /\ fruits = <<>>
  /\ score > 0 /\ lives < MAX_LIVES /\ lives > 0


\* ------------------------------------------------------------------------
\* Pointer events outside Playing
\* ------------------------------------------------------------------------
\* A step of handle_events: an event of the batch has been handled.
EventStep == pc = "events" /\ pc' \in {"events", "update"}
\* What a slice can change: points, combo and the entity collections.
Scoreboard ==
  << score, best_score, combo, combo_timer, lives,
     fruits, bombs, sliced_fruits, particles >>

\* C34: pointer events slice only in Playing.  In Title, BombFlash and
\* GameOver an event other than the restart signal changes nothing of the
\* session but the swipe path, the tracking flag and, in Title, the title
\* flag (the step to Playing): score, best score, combo, lives and the four
\* entity collections stay as they are.  An event that does change one of
\* them, the restart aside, is a pointer move made in Playing with the
\* button held.
C34_PointerSlicesOnlyInPlaying ==
  /\ [][(EventStep /\ ~Playing /\ ~RestartSignal) =>
          /\ UNCHANGED Scoreboard
          /\ UNCHANGED << game_over, bomb_flash_active, bomb_flash_timer,
                          bomb_flash_center, life_loss_timer, life_loss_index,
                          spawn_timer, spawn_interval, bomb_spawn_timer,
                          bomb_spawn_interval, difficulty, game_over_frames,
                          next_id >>
          /\ show_title_screen' # show_title_screen => (Title /\ Playing')]_vars
  /\ [][(EventStep /\ ~RestartSignal /\ Scoreboard' # Scoreboard) =>
          /\ Playing /\ swiping /\ swiping'
          /\ Len(swipe_path') = Len(swipe_path) + 1]_vars

\* The game is over for the lives lost and a fruit is still in the air; the
\* button is held and the swipe path lies across that fruit, which has not
\* been sliced.
C34_Witness ==
  /\ GameOver /\ pc = "events" /\ last.op = "draw"
  /\ swiping /\ Len(swipe_path) = 2 /\ swipe_path[1] # swipe_path[2]
  /\ \E i \in 1..Len(fruits) :
       PathNear(swipe_path, fruits[i].x, fruits[i].y, fruits[i].radius)


\* ------------------------------------------------------------------------
\* Launch from below the field
\* ------------------------------------------------------------------------
\* The fruit of the call moved upward in its latest update: the velocity
\* that update added to y was negative.
MovedUpward == ret.entity.vy - GRAVITY < 0

\* C35: a fruit created by spawn_fruit, 30 pixels below the bottom boundary
\* of the field, is not missed when spawn_fruit returns, nor after the
\* update of the tick it is spawned in, nor after any later update while its
\* vertical velocity is still upward; for the launch velocities at the ends
\* and the middle of the range of every mode, and for the radii 30, 35 and
\* 40.
C35_NotMissedWhileRising ==
  (call.op = "spawn_fruit" /\ (call.n = 0 \/ MovedUpward \/ ret.entity.vy < 0))
    => /\ ~ret.is_missed
       /\ ret.entity.y - ret.entity.radius
            <= (GAME_AREA_Y + GAME_AREA_HEIGHT) * Scale

\* The slowest launch of the game, mode Kolay at 9 pixels per tick, of a
\* fruit of radius 30, after the update of the tick it is spawned in: its
\* top edge is 9 pixels inside the field.
C35_Witness ==
  /\ call.op = "spawn_fruit" /\ call.n = 1 /\ call.mode = "Kolay"
  /\ call.vy = -9 * Scale /\ call.radius = 30 * Scale
  /\ ret.entity.vy < 0 /\ ~ret.is_missed
  /\ ret.entity.y - ret.entity.radius = 531 * Scale


\* ------------------------------------------------------------------------
\* End of the session loop
\* ------------------------------------------------------------------------
\* The frames of GameOver after which draw stops the loop: the first whole
\* number above FPS * 1.5.
LastGameOverFrame == (FPS * 3) \div 2 + 1
\* Enough of the explored ticks are left for the loop to reach its end.
FramesLeft == frame + LastGameOverFrame < OverFrames

====
